---------------------------- MODULE Spec2Model ----------------------------
(***************************************************************************)
(* A model of the schema-definition and row-validation engine of brad:     *)
(* the object model (Row, Column, constraints, Table), the two shipped     *)
(* table catalogs, the two row validators, and the schema lifecycle        *)
(* (create_schema, drop_schema, DatabaseManager.initialize_schema in its   *)
(* PostgreSQL and SQLite forms) driven against an executor whose           *)
(* statements may fail.                                                    *)
(***************************************************************************)
EXTENDS Integers, Sequences, FiniteSets, TLC

(***************************************************************************)
(* Python values.  A value is a record of its native type and its str()    *)
(* form; None is the single value of NoneType.                             *)
(***************************************************************************)
PyNone == [py |-> "NoneType", val |-> "None"]
PyInt(s) == [py |-> "int", val |-> s]
PyBool(s) == [py |-> "bool", val |-> s]
PyStr(s) == [py |-> "str", val |-> s]
PyDecimal(s) == [py |-> "Decimal", val |-> s]
PyDate(s) == [py |-> "date", val |-> s]
PyFloat(s) == [py |-> "float", val |-> s]

\* Python truthiness of the values the engine tests with `if x`.
Truthy(v) ==
  /\ v # PyNone
  /\ v # PyBool("False")
  /\ v # PyStr("")
  /\ v # PyInt("0")

\* isinstance(value, python_type): bool is a subclass of int.
IsInstance(v, python_type) ==
  \/ v.py = python_type
  \/ v.py = "bool" /\ python_type = "int"

(***************************************************************************)
(* brad.sql.types: a SqlType carries its SQL name and its Python type.     *)
(***************************************************************************)
SqlType(cls, name, python_type) == [class |-> cls, name |-> name, python_type |-> python_type]
Integer == SqlType("Integer", "INTEGER", "int")
BigInt == SqlType("BigInt", "BIGINT", "int")
Numeric(precision, scale) ==
  SqlType("Numeric", "NUMERIC(" \o ToString(precision) \o ", " \o ToString(scale) \o ")", "Decimal")
Boolean == SqlType("Boolean", "BOOLEAN", "bool")
Date == SqlType("Date", "DATE", "date")
Text == SqlType("Text", "TEXT", "str")

\* The shared type constants of the catalogs.
BIGINT == BigInt
DATE == Date
TEXT == Text
NUMERIC_19_5 == Numeric(19, 5)
BOOLEAN_ == Boolean

(***************************************************************************)
(* Row: the mapping given at construction, in insertion order, as a        *)
(* sequence of <<key, value>> pairs.                                       *)
(***************************************************************************)
NoData == << >>

\* Row.__init__(data=None, **kwargs): the mapping if it is non-empty, else the keywords.
Row(data, kwargs) == IF data # NoData THEN data ELSE kwargs

\* Row.columns()
columns(row) == [i \in 1..Len(row) |-> row[i][1]]

RowKeys(row) == {row[i][1] : i \in 1..Len(row)}

\* The attribute set by setattr(self, k, v) for key k.
RowAttr(row, item) == (CHOOSE i \in 1..Len(row) : row[i][1] = item)

\* brad Row.__getitem__: getattr(self, item); raises AttributeError for a missing key.
Raises_getitem(row, item) == item \notin RowKeys(row)
getitem(row, item) == row[RowAttr(row, item)][2]

\* bread Row.__getitem__: the value, or None when the key is not present.
getitem_or_none(row, item) ==
  IF item \in RowKeys(row) THEN row[RowAttr(row, item)][2] ELSE PyNone

\* setattr(self, k, v) runs for every key, so a key named as a method replaces the
\* method on the instance and calling it raises TypeError.
columns_raises(row) == "columns" \in RowKeys(row)

get_dict_raises(row) == "get_dict" \in RowKeys(row) \/ columns_raises(row)

\* Row.get_dict(): {c: self[c] for c in self.columns()}
get_dict(row) == [i \in 1..Len(columns(row)) |-> <<columns(row)[i], getitem(row, columns(row)[i])>>]

(***************************************************************************)
(* Column                                                                  *)
(***************************************************************************)
ALWAYS == PyStr("ALWAYS")
BY_DEFAULT == PyStr("BY DEFAULT")

\* Column.__init__ as if generated_identity were allowed on every type.
Column_raises_default_only(name, sql_type, generated_identity, not_null, default) ==
  default # PyNone /\ ~IsInstance(default, sql_type.python_type)

\* Column.__init__: the two checks that raise TypeError.
Column_raises(name, sql_type, generated_identity, not_null, default) ==
  \/ Truthy(generated_identity) /\ sql_type.class \notin {"Integer", "BigInt"}
  \/ default # PyNone /\ ~IsInstance(default, sql_type.python_type)

\* str(default).upper() of a bool, default.isoformat() of a date, str(default) otherwise.
Upper(s) ==
  IF s = "True" THEN "TRUE" ELSE IF s = "False" THEN "FALSE" ELSE IF s = "x" THEN "X" ELSE s

Column_default(sql_type, default) ==
  IF default = PyNone THEN PyNone
  ELSE IF sql_type.class = "Text" THEN PyStr("'" \o default.val \o "'")
  ELSE IF sql_type.class = "Boolean" THEN PyStr(Upper(default.val))
  ELSE IF sql_type.class = "Date" THEN PyStr(default.val)
  ELSE PyStr(default.val)

\* Column.__init__ as if not_null were stored as given.
Column_keeps_not_null(name, sql_type, generated_identity, not_null, default) ==
  [name |-> name,
   sql_type |-> sql_type,
   generated_identity |-> generated_identity,
   not_null |-> not_null,
   default |-> Column_default(sql_type, default)]

\* Column.__init__: the fields of the constructed column.
Column(name, sql_type, generated_identity, not_null, default) ==
  [name |-> name,
   sql_type |-> sql_type,
   generated_identity |-> generated_identity,
   not_null |-> IF ~Truthy(generated_identity) THEN not_null ELSE PyBool("True"),
   default |-> Column_default(sql_type, default)]

\* bread Column.__init__: the identity check raises TypeError; the default is not
\* checked against the type, and default.isoformat() raises AttributeError for a
\* default of a Date column that is no date.
bread_Column_raises(name, sql_type, generated_identity, not_null, default) ==
  \/ Truthy(generated_identity) /\ sql_type.class \notin {"Integer", "BigInt"}
  \/ default # PyNone /\ sql_type.class = "Date" /\ default.py # "date"

\* Column.to_sql as if NOT NULL were rendered for identity columns too.
to_sql_identity_not_null(col) ==
  LET col_def == "\"" \o col.name \o "\" " \o col.sql_type.name IN
  IF Truthy(col.generated_identity)
  THEN col_def \o " GENERATED " \o col.generated_identity.val \o " AS IDENTITY"
         \o (IF Truthy(col.not_null) THEN " NOT NULL" ELSE "")
  ELSE col_def \o (IF Truthy(col.not_null) THEN " NOT NULL" ELSE "")
         \o (IF col.default # PyNone THEN " DEFAULT " \o col.default.val ELSE "")

\* Column.to_sql
to_sql(col) ==
  LET col_def == "\"" \o col.name \o "\" " \o col.sql_type.name IN
  IF Truthy(col.generated_identity)
  THEN col_def \o " GENERATED " \o col.generated_identity.val \o " AS IDENTITY"
  ELSE col_def \o (IF Truthy(col.not_null) THEN " NOT NULL" ELSE "")
         \o (IF col.default # PyNone THEN " DEFAULT " \o col.default.val ELSE "")

(***************************************************************************)
(* Constraints.  A constraint object keeps its name and its SQL body; the  *)
(* model also keeps the constructor's arguments.                           *)
(***************************************************************************)
CASCADE == "CASCADE"
SET_NULL == "SET NULL"
SET_DEFAULT == "SET DEFAULT"
RESTRICT == "RESTRICT"
NO_ACTION == "NO ACTION"

RECURSIVE JoinFrom(_, _, _)
JoinFrom(parts, sep, i) ==
  IF i > Len(parts) THEN ""
  ELSE IF i = Len(parts) THEN parts[i]
  ELSE parts[i] \o sep \o JoinFrom(parts, sep, i + 1)

\* sep.join(parts)
Join(parts, sep) == JoinFrom(parts, sep, 1)

\* ", ".join(f'"{c}"' for c in columns)
QuotedList(cols) == Join([i \in 1..Len(cols) |-> "\"" \o cols[i] \o "\""], ", ")

Constraint(kind, sql, name, cols, ref_table, ref_columns) ==
  [kind |-> kind, name |-> name, sql |-> sql,
   columns |-> cols, ref_table |-> ref_table, ref_columns |-> ref_columns]

Check(condition, name) ==
  Constraint("Check", "CHECK (" \o condition \o ")", name, << >>, "", << >>)

PrimaryKey(cols, name) ==
  Constraint("PrimaryKey", "PRIMARY KEY (" \o QuotedList(cols) \o ")", name, cols, "", << >>)

\* An argument left out of the call, and the defaults of ForeignKey.__init__:
\* on_delete=FkActions.RESTRICT, on_update=FkActions.CASCADE.
Absent == "(absent)"
ForeignKey_on_delete(arg) == IF arg = Absent THEN RESTRICT ELSE arg
ForeignKey_on_update(arg) == IF arg = Absent THEN CASCADE ELSE arg

\* The constraint as if the ON UPDATE clause were written only for an action given.
ForeignKey_without_on_update(cols, ref_table, ref_columns, on_delete, on_update, name) ==
  Constraint("ForeignKey",
             "FOREIGN KEY (" \o QuotedList(cols) \o ") REFERENCES \"" \o ref_table \o "\" ("
               \o QuotedList(ref_columns) \o ")"
               \o " ON DELETE " \o on_delete
               \o (IF on_update = CASCADE THEN "" ELSE " ON UPDATE " \o on_update),
             name, cols, ref_table, ref_columns)

ForeignKey(cols, ref_table, ref_columns, on_delete, on_update, name) ==
  Constraint("ForeignKey",
             "FOREIGN KEY (" \o QuotedList(cols) \o ") REFERENCES \"" \o ref_table \o "\" ("
               \o QuotedList(ref_columns) \o ")"
               \o " ON DELETE " \o on_delete \o " ON UPDATE " \o on_update,
             name, cols, ref_table, ref_columns)

Unique(cols, name) ==
  Constraint("Unique", "UNIQUE (" \o QuotedList(cols) \o ")", name, cols, "", << >>)

\* Constraint.to_sql(): the body, after CONSTRAINT "<name>" when the name is truthy.
Constraint_to_sql(c) ==
  IF Truthy(c.name) THEN "CONSTRAINT \"" \o c.name.val \o "\" " \o c.sql ELSE c.sql

(***************************************************************************)
(* Table: name, columns, constraints and seed rows, built fluently.        *)
(***************************************************************************)
Table(name) == [name |-> name, columns |-> << >>, constraints |-> << >>, seed |-> << >>]

set_columns(table, cols) == [table EXCEPT !.columns = cols]

set_constraint(table, constraint) ==
  [table EXCEPT !.constraints = Append(@, constraint)]

\* A chain of set_constraint calls.
RECURSIVE set_constraints(_, _)
set_constraints(table, cs) ==
  IF cs = << >> THEN table
  ELSE set_constraints(set_constraint(table, Head(cs)), Tail(cs))

\* Table.set_seed of brad, Table.insert_data of bread.
set_seed(table, data) == [table EXCEPT !.seed = data]

\* The statement as if the constraints were appended before the columns.
get_create_statement_constraints_first(table) ==
  LET parts == [k \in 1..Len(table.constraints) |-> Constraint_to_sql(table.constraints[k])]
                 \o [k \in 1..Len(table.columns) |-> to_sql(table.columns[k])]
  IN "CREATE TABLE IF NOT EXISTS \"" \o table.name \o "\" (" \o Join(parts, ", ") \o ");"

\* Table.get_create_statement of bread; the statement Table.create of brad executes.
get_create_statement(table) ==
  LET parts == [k \in 1..Len(table.columns) |-> to_sql(table.columns[k])]
                 \o [k \in 1..Len(table.constraints) |-> Constraint_to_sql(table.constraints[k])]
  IN "CREATE TABLE IF NOT EXISTS \"" \o table.name \o "\" (" \o Join(parts, ", ") \o ");"

(***************************************************************************)
(* The catalog of brad.sql.schema, in the order get_all_tables returns it. *)
(* Text values are given in ASCII.                                         *)
(***************************************************************************)
\* The holder table as if it were given no seed row.
HOLDER_unseeded ==
  set_constraints(set_columns(Table("holder"), <<
    Column("id", BIGINT, BY_DEFAULT, PyNone, PyNone),
    Column("name", TEXT, PyNone, PyBool("True"), PyNone),
    Column("tax_bracket", TEXT, PyNone, PyNone, PyNone)
  >>), <<
    PrimaryKey(<<"id">>, PyStr("pk_holder")),
    Unique(<<"name">>, PyStr("unq_holder_name"))
  >>)

ACCOUNT_TYPE ==
  set_seed(set_constraints(set_columns(Table("account_type"), <<
    Column("id", BIGINT, BY_DEFAULT, PyNone, PyNone),
    Column("name", TEXT, PyNone, PyBool("True"), PyNone),
    Column("name_pt", TEXT, PyNone, PyNone, PyNone)
  >>), <<
    PrimaryKey(<<"id">>, PyStr("pk_account_type")),
    Unique(<<"name">>, PyStr("unq_account_type_name"))
  >>), <<
    Row(NoData, <<<<"id", PyInt("-1")>>, <<"name", PyStr("Unknown")>>, <<"name_pt", PyStr("Desconhecido")>>>>),
    Row(NoData, <<<<"id", PyInt("1")>>, <<"name", PyStr("Checking")>>, <<"name_pt", PyStr("Conta corrente")>>>>),
    Row(NoData, <<<<"id", PyInt("2")>>, <<"name", PyStr("Savings")>>, <<"name_pt", PyStr("Conta poupanca")>>>>),
    Row(NoData, <<<<"id", PyInt("3")>>, <<"name", PyStr("Credit Card")>>, <<"name_pt", PyStr("Cartao de credito")>>>>),
    Row(NoData, <<<<"id", PyInt("4")>>, <<"name", PyStr("Investment")>>, <<"name_pt", PyStr("Investimento")>>>>),
    Row(NoData, <<<<"id", PyInt("5")>>, <<"name", PyStr("Loan")>>, <<"name_pt", PyStr("Emprestimo")>>>>),
    Row(NoData, <<<<"id", PyInt("6")>>, <<"name", PyStr("Mortgage")>>, <<"name_pt", PyStr("Hipoteca")>>>>),
    Row(NoData, <<<<"id", PyInt("7")>>, <<"name", PyStr("Cash")>>, <<"name_pt", PyStr("Dinheiro")>>>>),
    Row(NoData, <<<<"id", PyInt("8")>>, <<"name", PyStr("Other")>>, <<"name_pt", PyStr("Outros")>>>>)
  >>)

FINANCIAL_PRODUCT_TYPE ==
  set_seed(set_constraints(set_columns(Table("financial_product_type"), <<
    Column("id", BIGINT, BY_DEFAULT, PyNone, PyNone),
    Column("name", TEXT, PyNone, PyBool("True"), PyNone),
    Column("name_pt", TEXT, PyNone, PyNone, PyNone)
  >>), <<
    PrimaryKey(<<"id">>, PyStr("pk_financial_product_type")),
    Unique(<<"name">>, PyStr("unq_financial_product_type_name"))
  >>), <<
    Row(NoData, <<<<"id", PyInt("-1")>>, <<"name", PyStr("Unknown")>>, <<"name_pt", PyStr("Desconhecido")>>>>),
    Row(NoData, <<<<"id", PyInt("1")>>, <<"name", PyStr("Stock")>>, <<"name_pt", PyStr("Accao")>>>>),
    Row(NoData, <<<<"id", PyInt("2")>>, <<"name", PyStr("Bond")>>, <<"name_pt", PyStr("Titulo")>>>>),
    Row(NoData, <<<<"id", PyInt("3")>>, <<"name", PyStr("Investment Fund")>>, <<"name_pt", PyStr("Fundo de investimento")>>>>),
    Row(NoData, <<<<"id", PyInt("4")>>, <<"name", PyStr("Exchange-Traded Fund (ETF)")>>, <<"name_pt", PyStr("Fundo de indice (ETF)")>>>>),
    Row(NoData, <<<<"id", PyInt("5")>>, <<"name", PyStr("Real Estate Investment Trust (REIT)")>>, <<"name_pt", PyStr("Fundo de investimento imobiliario")>>>>),
    Row(NoData, <<<<"id", PyInt("6")>>, <<"name", PyStr("Cryptocurrency")>>, <<"name_pt", PyStr("Criptomoeda")>>>>)
  >>)

TRANSACTION_TYPE ==
  set_seed(set_constraints(set_columns(Table("transaction_type"), <<
    Column("id", BIGINT, BY_DEFAULT, PyNone, PyNone),
    Column("name", TEXT, PyNone, PyBool("True"), PyNone),
    Column("name_pt", TEXT, PyNone, PyNone, PyNone)
  >>), <<
    PrimaryKey(<<"id">>, PyStr("pk_transaction_type")),
    Unique(<<"name">>, PyStr("unq_transaction_type_name"))
  >>), <<
    Row(NoData, <<<<"id", PyInt("-1")>>, <<"name", PyStr("Unknown")>>, <<"name_pt", PyStr("Desconhecido")>>>>),
    Row(NoData, <<<<"id", PyInt("1")>>, <<"name", PyStr("Purchase")>>, <<"name_pt", PyStr("Compra")>>>>),
    Row(NoData, <<<<"id", PyInt("2")>>, <<"name", PyStr("Sale")>>, <<"name_pt", PyStr("Venda")>>>>),
    Row(NoData, <<<<"id", PyInt("3")>>, <<"name", PyStr("Dividend")>>, <<"name_pt", PyStr("Dividendo")>>>>),
    Row(NoData, <<<<"id", PyInt("4")>>, <<"name", PyStr("Interest")>>, <<"name_pt", PyStr("Juro")>>>>),
    Row(NoData, <<<<"id", PyInt("5")>>, <<"name", PyStr("Fee")>>, <<"name_pt", PyStr("Taxa")>>>>),
    Row(NoData, <<<<"id", PyInt("6")>>, <<"name", PyStr("Transfer")>>, <<"name_pt", PyStr("Transferencia")>>>>)
  >>)

PROVIDER ==
  set_seed(set_constraints(set_columns(Table("provider"), <<
    Column("id", BIGINT, BY_DEFAULT, PyNone, PyNone),
    Column("name", TEXT, PyNone, PyBool("True"), PyNone),
    Column("country_iso_alpha2", TEXT, PyNone, PyBool("True"), PyNone)
  >>), <<
    PrimaryKey(<<"id">>, PyStr("pk_provider")),
    Unique(<<"name">>, PyStr("unq_provider_name"))
  >>), <<
    Row(NoData, <<<<"id", PyInt("-1")>>, <<"name", PyStr("Unknown")>>, <<"country_iso_alpha2", PyStr("XX")>>>>)
  >>)

HOLDER ==
  set_seed(set_constraints(set_columns(Table("holder"), <<
    Column("id", BIGINT, BY_DEFAULT, PyNone, PyNone),
    Column("name", TEXT, PyNone, PyBool("True"), PyNone),
    Column("tax_bracket", TEXT, PyNone, PyNone, PyNone)
  >>), <<
    PrimaryKey(<<"id">>, PyStr("pk_holder")),
    Unique(<<"name">>, PyStr("unq_holder_name"))
  >>), <<
    Row(NoData, <<<<"id", PyInt("-1")>>, <<"name", PyStr("Unknown")>>>>)
  >>)

EXCHANGE_RATES ==
  set_seed(set_constraints(set_columns(Table("exchange_rate"), <<
    Column("date", DATE, PyNone, PyBool("True"), PyNone),
    Column("base_currency", TEXT, PyNone, PyBool("True"), PyNone),
    Column("target_currency", TEXT, PyNone, PyBool("True"), PyNone),
    Column("exchange_rate", NUMERIC_19_5, PyNone, PyBool("True"), PyNone)
  >>), <<
    PrimaryKey(<<"date", "base_currency", "target_currency">>, PyStr("pk_exchange_rate"))
  >>), <<

  >>)

ACCOUNT ==
  set_seed(set_constraints(set_columns(Table("account"), <<
    Column("id", BIGINT, BY_DEFAULT, PyNone, PyNone),
    Column("name", TEXT, PyNone, PyBool("True"), PyNone),
    Column("account_type_id", BIGINT, PyNone, PyBool("True"), PyInt("-1")),
    Column("currency", TEXT, PyNone, PyBool("True"), PyNone),
    Column("provider_id", BIGINT, PyNone, PyBool("True"), PyInt("-1")),
    Column("holder_1_id", BIGINT, PyNone, PyBool("True"), PyInt("-1")),
    Column("holder_2_id", BIGINT, PyNone, PyNone, PyNone),
    Column("holder_3_id", BIGINT, PyNone, PyNone, PyNone),
    Column("account_number", TEXT, PyNone, PyNone, PyNone),
    Column("sort_code", TEXT, PyNone, PyNone, PyNone),
    Column("iban", TEXT, PyNone, PyNone, PyNone),
    Column("swift_code", TEXT, PyNone, PyNone, PyNone),
    Column("opening_date", DATE, PyNone, PyNone, PyNone),
    Column("closing_date", DATE, PyNone, PyNone, PyNone),
    Column("is_active", BOOLEAN_, PyNone, PyBool("True"), PyBool("True"))
  >>), <<
    PrimaryKey(<<"id">>, PyStr("pk_account")),
    Unique(<<"name">>, PyStr("unq_account_name")),
    ForeignKey(<<"account_type_id">>, "account_type", <<"id">>, SET_DEFAULT, CASCADE, PyStr("fk_account_account_type")),
    ForeignKey(<<"provider_id">>, "provider", <<"id">>, RESTRICT, CASCADE, PyStr("fk_account_provider")),
    ForeignKey(<<"holder_1_id">>, "holder", <<"id">>, RESTRICT, CASCADE, PyStr("fk_account_holder_1")),
    ForeignKey(<<"holder_2_id">>, "holder", <<"id">>, RESTRICT, CASCADE, PyStr("fk_account_holder_2")),
    ForeignKey(<<"holder_3_id">>, "holder", <<"id">>, RESTRICT, CASCADE, PyStr("fk_account_holder_3"))
  >>), <<
    Row(NoData, <<<<"id", PyInt("-1")>>, <<"name", PyStr("Unknown")>>, <<"currency", PyStr("")>>, <<"is_active", PyBool("False")>>>>)
  >>)

ACCOUNT_BALANCE ==
  set_seed(set_constraints(set_columns(Table("account_balance"), <<
    Column("date", DATE, PyNone, PyBool("True"), PyNone),
    Column("account_id", BIGINT, PyNone, PyBool("True"), PyInt("-1")),
    Column("balance", NUMERIC_19_5, PyNone, PyBool("True"), PyNone)
  >>), <<
    PrimaryKey(<<"date", "account_id">>, PyStr("pk_account_balance")),
    ForeignKey(<<"account_id">>, "account", <<"id">>, CASCADE, CASCADE, PyStr("fk_account_balance_account"))
  >>), <<

  >>)

ACCOUNT_TRANSACTION ==
  set_seed(set_constraints(set_columns(Table("account_transaction"), <<
    Column("id", BIGINT, ALWAYS, PyNone, PyNone),
    Column("date", DATE, PyNone, PyBool("True"), PyNone),
    Column("account_id", BIGINT, PyNone, PyBool("True"), PyInt("-1")),
    Column("transaction_type_id", BIGINT, PyNone, PyBool("True"), PyInt("-1")),
    Column("transaction_amount", NUMERIC_19_5, PyNone, PyBool("True"), PyNone),
    Column("description", TEXT, PyNone, PyNone, PyNone)
  >>), <<
    PrimaryKey(<<"id">>, PyStr("pk_account_transaction")),
    ForeignKey(<<"account_id">>, "account", <<"id">>, CASCADE, CASCADE, PyStr("fk_account_transaction_account_id")),
    ForeignKey(<<"transaction_type_id">>, "transaction_type", <<"id">>, SET_DEFAULT, CASCADE, PyStr("fk_account_transaction_transaction_type"))
  >>), <<

  >>)

FINANCIAL_PRODUCT ==
  set_seed(set_constraints(set_columns(Table("financial_product"), <<
    Column("id", BIGINT, BY_DEFAULT, PyNone, PyNone),
    Column("name", TEXT, PyNone, PyBool("True"), PyNone),
    Column("financial_product_type_id", BIGINT, PyNone, PyBool("True"), PyInt("-1")),
    Column("currency", TEXT, PyNone, PyBool("True"), PyNone),
    Column("linked_account_id", BIGINT, PyNone, PyBool("True"), PyInt("-1")),
    Column("provider_id", BIGINT, PyNone, PyBool("True"), PyInt("-1")),
    Column("holder_id", BIGINT, PyNone, PyBool("True"), PyInt("-1")),
    Column("ticker", TEXT, PyNone, PyNone, PyNone),
    Column("isin", TEXT, PyNone, PyNone, PyNone),
    Column("is_active", BOOLEAN_, PyNone, PyBool("True"), PyBool("True"))
  >>), <<
    PrimaryKey(<<"id">>, PyStr("pk_financial_product")),
    Unique(<<"name">>, PyStr("unq_financial_product_name")),
    ForeignKey(<<"financial_product_type_id">>, "financial_product_type", <<"id">>, SET_DEFAULT, CASCADE, PyStr("fk_financial_product_financial_product_type")),
    ForeignKey(<<"linked_account_id">>, "account", <<"id">>, RESTRICT, CASCADE, PyStr("fk_financial_product_linked_account")),
    ForeignKey(<<"provider_id">>, "provider", <<"id">>, RESTRICT, CASCADE, PyStr("fk_financial_product_provider")),
    ForeignKey(<<"holder_id">>, "holder", <<"id">>, RESTRICT, CASCADE, PyStr("fk_financial_product_holder"))
  >>), <<
    Row(NoData, <<<<"id", PyInt("-1")>>, <<"name", PyStr("Unknown")>>, <<"currency", PyStr("")>>, <<"is_active", PyBool("False")>>>>)
  >>)

PRODUCT_VALUE ==
  set_seed(set_constraints(set_columns(Table("product_value"), <<
    Column("date", DATE, PyNone, PyBool("True"), PyNone),
    Column("financial_product_id", BIGINT, PyNone, PyBool("True"), PyInt("-1")),
    Column("current_value", NUMERIC_19_5, PyNone, PyBool("True"), PyNone),
    Column("units", NUMERIC_19_5, PyNone, PyNone, PyNone),
    Column("unit_value", NUMERIC_19_5, PyNone, PyNone, PyNone)
  >>), <<
    PrimaryKey(<<"date", "financial_product_id">>, PyStr("pk_product_value")),
    ForeignKey(<<"financial_product_id">>, "financial_product", <<"id">>, CASCADE, CASCADE, PyStr("fk_product_value_financial_product"))
  >>), <<

  >>)

PRODUCT_TRANSACTION ==
  set_seed(set_constraints(set_columns(Table("product_transaction"), <<
    Column("id", BIGINT, ALWAYS, PyNone, PyNone),
    Column("date", DATE, PyNone, PyBool("True"), PyNone),
    Column("financial_product_id", BIGINT, PyNone, PyBool("True"), PyInt("-1")),
    Column("transaction_type_id", BIGINT, PyNone, PyBool("True"), PyInt("-1")),
    Column("transaction_amount", NUMERIC_19_5, PyNone, PyBool("True"), PyNone),
    Column("units", NUMERIC_19_5, PyNone, PyNone, PyNone),
    Column("unit_value", NUMERIC_19_5, PyNone, PyNone, PyNone)
  >>), <<
    PrimaryKey(<<"id">>, PyStr("pk_product_transaction")),
    ForeignKey(<<"financial_product_id">>, "financial_product", <<"id">>, CASCADE, CASCADE, PyStr("fk_product_transaction_financial_product")),
    ForeignKey(<<"transaction_type_id">>, "transaction_type", <<"id">>, SET_DEFAULT, CASCADE, PyStr("fk_product_transaction_transaction_type"))
  >>), <<

  >>)

\* The catalog as if the balances were listed before the accounts they reference.
get_all_tables_misordered ==
  <<ACCOUNT_TYPE, FINANCIAL_PRODUCT_TYPE, TRANSACTION_TYPE, PROVIDER, HOLDER, ACCOUNT_BALANCE, ACCOUNT, FINANCIAL_PRODUCT, EXCHANGE_RATES, ACCOUNT_TRANSACTION, PRODUCT_VALUE, PRODUCT_TRANSACTION>>

get_all_tables ==
  <<ACCOUNT_TYPE, FINANCIAL_PRODUCT_TYPE, TRANSACTION_TYPE, PROVIDER, HOLDER, ACCOUNT, FINANCIAL_PRODUCT, EXCHANGE_RATES, ACCOUNT_BALANCE, ACCOUNT_TRANSACTION, PRODUCT_VALUE, PRODUCT_TRANSACTION>>

(***************************************************************************)
(* The catalog TABLES of bread.sql.tables.                                 *)
(***************************************************************************)
TABLES_exchange_rate ==
  set_seed(set_constraints(set_columns(Table("exchange_rate"), <<
    Column("date", DATE, PyNone, PyBool("True"), PyNone),
    Column("base_currency", TEXT, PyNone, PyBool("True"), PyNone),
    Column("target_currency", TEXT, PyNone, PyBool("True"), PyNone),
    Column("exchange_rate", NUMERIC_19_5, PyNone, PyBool("True"), PyNone)
  >>), <<
    PrimaryKey(<<"date", "base_currency", "target_currency">>, PyStr("pk_exchange_rate"))
  >>), <<

  >>)

TABLES_account_type ==
  set_seed(set_constraints(set_columns(Table("account_type"), <<
    Column("id", BIGINT, BY_DEFAULT, PyNone, PyNone),
    Column("name", TEXT, PyNone, PyBool("True"), PyNone),
    Column("name_pt", TEXT, PyNone, PyNone, PyNone)
  >>), <<
    PrimaryKey(<<"id">>, PyStr("pk_account_type")),
    Unique(<<"name">>, PyStr("unq_account_type_name"))
  >>), <<
    Row(NoData, <<<<"id", PyInt("-1")>>, <<"name", PyStr("Unknown")>>, <<"name_pt", PyStr("Desconhecido")>>>>),
    Row(NoData, <<<<"id", PyInt("1")>>, <<"name", PyStr("Checking")>>, <<"name_pt", PyStr("Conta corrente")>>>>),
    Row(NoData, <<<<"id", PyInt("2")>>, <<"name", PyStr("Savings")>>, <<"name_pt", PyStr("Conta poupanca")>>>>),
    Row(NoData, <<<<"id", PyInt("3")>>, <<"name", PyStr("Credit Card")>>, <<"name_pt", PyStr("Cartao de credito")>>>>),
    Row(NoData, <<<<"id", PyInt("4")>>, <<"name", PyStr("Investment")>>, <<"name_pt", PyStr("Investimento")>>>>),
    Row(NoData, <<<<"id", PyInt("5")>>, <<"name", PyStr("Loan")>>, <<"name_pt", PyStr("Emprestimo")>>>>),
    Row(NoData, <<<<"id", PyInt("6")>>, <<"name", PyStr("Mortgage")>>, <<"name_pt", PyStr("Hipoteca")>>>>),
    Row(NoData, <<<<"id", PyInt("7")>>, <<"name", PyStr("Cash")>>, <<"name_pt", PyStr("Dinheiro")>>>>),
    Row(NoData, <<<<"id", PyInt("8")>>, <<"name", PyStr("Other")>>, <<"name_pt", PyStr("Outros")>>>>)
  >>)

TABLES_financial_product_type ==
  set_seed(set_constraints(set_columns(Table("financial_product_type"), <<
    Column("id", BIGINT, BY_DEFAULT, PyNone, PyNone),
    Column("name", TEXT, PyNone, PyBool("True"), PyNone),
    Column("name_pt", TEXT, PyNone, PyNone, PyNone)
  >>), <<
    PrimaryKey(<<"id">>, PyStr("pk_financial_product_type")),
    Unique(<<"name">>, PyStr("unq_financial_product_type_name"))
  >>), <<
    Row(NoData, <<<<"id", PyInt("-1")>>, <<"name", PyStr("Unknown")>>, <<"name_pt", PyStr("Desconhecido")>>>>),
    Row(NoData, <<<<"id", PyInt("1")>>, <<"name", PyStr("Stock")>>, <<"name_pt", PyStr("Accao")>>>>),
    Row(NoData, <<<<"id", PyInt("2")>>, <<"name", PyStr("Bond")>>, <<"name_pt", PyStr("Titulo")>>>>),
    Row(NoData, <<<<"id", PyInt("3")>>, <<"name", PyStr("Investment Fund")>>, <<"name_pt", PyStr("Fundo de investimento")>>>>),
    Row(NoData, <<<<"id", PyInt("4")>>, <<"name", PyStr("Exchange-Traded Fund (ETF)")>>, <<"name_pt", PyStr("Fundo de indice (ETF)")>>>>),
    Row(NoData, <<<<"id", PyInt("5")>>, <<"name", PyStr("Real Estate Investment Trust (REIT)")>>, <<"name_pt", PyStr("Fundo de investimento imobiliario")>>>>),
    Row(NoData, <<<<"id", PyInt("6")>>, <<"name", PyStr("Cryptocurrency")>>, <<"name_pt", PyStr("Criptomoeda")>>>>)
  >>)

TABLES_transaction_type ==
  set_seed(set_constraints(set_columns(Table("transaction_type"), <<
    Column("id", BIGINT, BY_DEFAULT, PyNone, PyNone),
    Column("name", TEXT, PyNone, PyBool("True"), PyNone),
    Column("name_pt", TEXT, PyNone, PyNone, PyNone)
  >>), <<
    PrimaryKey(<<"id">>, PyStr("pk_transaction_type")),
    Unique(<<"name">>, PyStr("unq_transaction_type_name"))
  >>), <<
    Row(NoData, <<<<"id", PyInt("-1")>>, <<"name", PyStr("Unknown")>>, <<"name_pt", PyStr("Desconhecido")>>>>),
    Row(NoData, <<<<"id", PyInt("1")>>, <<"name", PyStr("Purchase")>>, <<"name_pt", PyStr("Compra")>>>>),
    Row(NoData, <<<<"id", PyInt("2")>>, <<"name", PyStr("Sale")>>, <<"name_pt", PyStr("Venda")>>>>),
    Row(NoData, <<<<"id", PyInt("3")>>, <<"name", PyStr("Dividend")>>, <<"name_pt", PyStr("Dividendo")>>>>),
    Row(NoData, <<<<"id", PyInt("4")>>, <<"name", PyStr("Interest")>>, <<"name_pt", PyStr("Juro")>>>>),
    Row(NoData, <<<<"id", PyInt("5")>>, <<"name", PyStr("Fee")>>, <<"name_pt", PyStr("Taxa")>>>>),
    Row(NoData, <<<<"id", PyInt("6")>>, <<"name", PyStr("Transfer")>>, <<"name_pt", PyStr("Transferencia")>>>>)
  >>)

TABLES_holder ==
  set_seed(set_constraints(set_columns(Table("holder"), <<
    Column("id", BIGINT, BY_DEFAULT, PyNone, PyNone),
    Column("name", TEXT, PyNone, PyBool("True"), PyNone),
    Column("tax_bracket", TEXT, PyNone, PyNone, PyNone)
  >>), <<
    PrimaryKey(<<"id">>, PyStr("pk_holder")),
    Unique(<<"name">>, PyStr("unq_holder_name"))
  >>), <<
    Row(NoData, <<<<"id", PyInt("-1")>>, <<"name", PyStr("Unknown")>>>>)
  >>)

TABLES_provider ==
  set_seed(set_constraints(set_columns(Table("provider"), <<
    Column("id", BIGINT, BY_DEFAULT, PyNone, PyNone),
    Column("name", TEXT, PyNone, PyBool("True"), PyNone)
  >>), <<
    PrimaryKey(<<"id">>, PyStr("pk_provider")),
    Unique(<<"name">>, PyStr("unq_provider_name"))
  >>), <<
    Row(NoData, <<<<"id", PyInt("-1")>>, <<"name", PyStr("Unknown")>>>>)
  >>)

TABLES_account ==
  set_seed(set_constraints(set_columns(Table("account"), <<
    Column("id", BIGINT, BY_DEFAULT, PyNone, PyNone),
    Column("name", TEXT, PyNone, PyBool("True"), PyNone),
    Column("account_type_id", BIGINT, PyNone, PyBool("True"), PyInt("-1")),
    Column("provider_id", BIGINT, PyNone, PyBool("True"), PyInt("-1")),
    Column("holder_1_id", BIGINT, PyNone, PyBool("True"), PyInt("-1")),
    Column("holder_2_id", BIGINT, PyNone, PyNone, PyNone),
    Column("holder_3_id", BIGINT, PyNone, PyNone, PyNone)
  >>), <<
    PrimaryKey(<<"id">>, PyStr("pk_account")),
    Unique(<<"name">>, PyStr("unq_account_name")),
    ForeignKey(<<"account_type_id">>, "account_type", <<"id">>, SET_DEFAULT, CASCADE, PyStr("fk_account_account_type")),
    ForeignKey(<<"provider_id">>, "provider", <<"id">>, RESTRICT, CASCADE, PyStr("fk_account_provider")),
    ForeignKey(<<"holder_1_id">>, "holder", <<"id">>, RESTRICT, CASCADE, PyStr("fk_account_holder_1")),
    ForeignKey(<<"holder_2_id">>, "holder", <<"id">>, RESTRICT, CASCADE, PyStr("fk_account_holder_2")),
    ForeignKey(<<"holder_3_id">>, "holder", <<"id">>, RESTRICT, CASCADE, PyStr("fk_account_holder_3"))
  >>), <<
    Row(NoData, <<<<"id", PyInt("-1")>>, <<"name", PyStr("Unknown")>>>>)
  >>)

TABLES_financial_product ==
  set_seed(set_constraints(set_columns(Table("financial_product"), <<
    Column("id", BIGINT, BY_DEFAULT, PyNone, PyNone),
    Column("name", TEXT, PyNone, PyBool("True"), PyNone),
    Column("financial_product_type_id", BIGINT, PyNone, PyBool("True"), PyInt("-1")),
    Column("currency", TEXT, PyNone, PyBool("True"), PyNone),
    Column("provider_id", BIGINT, PyNone, PyBool("True"), PyInt("-1")),
    Column("holder_id", BIGINT, PyNone, PyBool("True"), PyInt("-1")),
    Column("ticker", TEXT, PyNone, PyNone, PyNone),
    Column("isin", TEXT, PyNone, PyNone, PyNone)
  >>), <<
    PrimaryKey(<<"id">>, PyStr("pk_financial_product")),
    Unique(<<"name">>, PyStr("unq_financial_product_name")),
    ForeignKey(<<"financial_product_type_id">>, "financial_product_type", <<"id">>, SET_DEFAULT, CASCADE, PyStr("fk_financial_product_financial_product_type")),
    ForeignKey(<<"provider_id">>, "provider", <<"id">>, RESTRICT, CASCADE, PyStr("fk_financial_product_provider")),
    ForeignKey(<<"holder_id">>, "holder", <<"id">>, RESTRICT, CASCADE, PyStr("fk_financial_product_holder"))
  >>), <<
    Row(NoData, <<<<"id", PyInt("-1")>>, <<"name", PyStr("Unknown")>>, <<"currency", PyStr("")>>>>)
  >>)

TABLES_account_balance ==
  set_seed(set_constraints(set_columns(Table("account_balance"), <<
    Column("date", DATE, PyNone, PyBool("True"), PyNone),
    Column("account_id", BIGINT, PyNone, PyBool("True"), PyInt("-1")),
    Column("balance", NUMERIC_19_5, PyNone, PyBool("True"), PyNone)
  >>), <<
    PrimaryKey(<<"date", "account_id">>, PyStr("pk_account_balance")),
    ForeignKey(<<"account_id">>, "account", <<"id">>, CASCADE, CASCADE, PyStr("fk_account_balance_account"))
  >>), <<

  >>)

TABLES_account_transaction ==
  set_seed(set_constraints(set_columns(Table("account_transaction"), <<
    Column("id", BIGINT, ALWAYS, PyNone, PyNone),
    Column("date", DATE, PyNone, PyBool("True"), PyNone),
    Column("account_id", BIGINT, PyNone, PyBool("True"), PyInt("-1")),
    Column("transaction_type_id", BIGINT, PyNone, PyBool("True"), PyInt("-1")),
    Column("transaction_amount", NUMERIC_19_5, PyNone, PyBool("True"), PyNone),
    Column("description", TEXT, PyNone, PyNone, PyNone)
  >>), <<
    PrimaryKey(<<"id">>, PyStr("pk_account_transaction")),
    ForeignKey(<<"account_id">>, "account", <<"id">>, CASCADE, CASCADE, PyStr("fk_account_transaction_account_id")),
    ForeignKey(<<"transaction_type_id">>, "transaction_type", <<"id">>, SET_DEFAULT, CASCADE, PyStr("fk_account_transaction_transaction_type"))
  >>), <<

  >>)

TABLES_product_value ==
  set_seed(set_constraints(set_columns(Table("product_value"), <<
    Column("date", DATE, PyNone, PyBool("True"), PyNone),
    Column("financial_product_id", BIGINT, PyNone, PyBool("True"), PyInt("-1")),
    Column("current_value", NUMERIC_19_5, PyNone, PyBool("True"), PyNone),
    Column("units", NUMERIC_19_5, PyNone, PyNone, PyNone),
    Column("unit_value", NUMERIC_19_5, PyNone, PyNone, PyNone)
  >>), <<
    PrimaryKey(<<"date", "financial_product_id">>, PyStr("pk_product_value")),
    ForeignKey(<<"financial_product_id">>, "financial_product", <<"id">>, CASCADE, CASCADE, PyStr("fk_product_value_financial_product"))
  >>), <<

  >>)

TABLES_product_transaction ==
  set_seed(set_constraints(set_columns(Table("product_transaction"), <<
    Column("id", BIGINT, ALWAYS, PyNone, PyNone),
    Column("date", DATE, PyNone, PyBool("True"), PyNone),
    Column("financial_product_id", BIGINT, PyNone, PyBool("True"), PyInt("-1")),
    Column("transaction_type_id", BIGINT, PyNone, PyBool("True"), PyInt("-1")),
    Column("transaction_amount", NUMERIC_19_5, PyNone, PyBool("True"), PyNone),
    Column("units", NUMERIC_19_5, PyNone, PyNone, PyNone),
    Column("unit_value", NUMERIC_19_5, PyNone, PyNone, PyNone)
  >>), <<
    PrimaryKey(<<"id">>, PyStr("pk_product_transaction")),
    ForeignKey(<<"financial_product_id">>, "financial_product", <<"id">>, CASCADE, CASCADE, PyStr("fk_product_transaction_financial_product")),
    ForeignKey(<<"transaction_type_id">>, "transaction_type", <<"id">>, SET_DEFAULT, CASCADE, PyStr("fk_product_transaction_transaction_type"))
  >>), <<

  >>)

TABLES ==
  <<TABLES_exchange_rate, TABLES_account_type, TABLES_financial_product_type, TABLES_transaction_type, TABLES_holder, TABLES_provider, TABLES_account, TABLES_financial_product, TABLES_account_balance, TABLES_account_transaction, TABLES_product_value, TABLES_product_transaction>>

(***************************************************************************)
(* The table definitions the test suites validate against.                 *)
(***************************************************************************)
TEST_TABLES ==
  << set_constraints(set_columns(Table("users"), <<
       Column("id", BigInt, ALWAYS, PyNone, PyNone),
       Column("name", Text, PyNone, PyBool("True"), PyNone),
       Column("age", Integer, PyNone, PyNone, PyNone)
     >>), << Unique(<<"name">>, PyNone) >>),
     set_constraints(set_columns(Table("products"), <<
       Column("sku", Text, PyNone, PyBool("True"), PyNone),
       Column("name", Text, PyNone, PyBool("True"), PyNone),
       Column("price", Numeric(19, 2), PyNone, PyBool("True"), PyNone)
     >>), << PrimaryKey(<<"sku">>, PyNone) >>),
     set_columns(Table("product_types"), <<
       Column("id", BigInt, BY_DEFAULT, PyNone, PyNone),
       Column("type", Text, PyNone, PyBool("True"), PyNone)
     >>) >>

\* TestTableObject.setUp
TEST_TABLE ==
  set_constraints(set_columns(Table("test_table"), <<
    Column("id", BigInt, BY_DEFAULT, PyNone, PyNone),
    Column("name", Text, PyNone, PyBool("True"), PyNone),
    Column("is_active", Boolean, PyNone, PyNone, PyBool("True"))
  >>), << PrimaryKey(<<"id">>, PyNone), Unique(<<"name">>, PyNone) >>)

(***************************************************************************)
(* Table.get_writable_columns and Table._validate_row (brad).              *)
(* _validate_row_outcome names the return statement the row reaches.       *)
(***************************************************************************)
RECURSIVE SelectNames(_, _, _)
SelectNames(cols, keep(_), i) ==
  IF i > Len(cols) THEN << >>
  ELSE IF keep(cols[i]) THEN <<cols[i].name>> \o SelectNames(cols, keep, i + 1)
  ELSE SelectNames(cols, keep, i + 1)

IsWritable(col) == col.generated_identity \in {PyNone, BY_DEFAULT}

get_writable_columns(table) == SelectNames(table.columns, IsWritable, 1)

SeqRange(s) == {s[i] : i \in 1..Len(s)}

\* The first loop as if every column of the table were writable.
RECURSIVE validate_row_keys_any_column(_, _, _)
validate_row_keys_any_column(table, row_columns, i) ==
  IF i > Len(row_columns) THEN "ok"
  ELSE IF row_columns[i] \notin {table.columns[j].name : j \in 1..Len(table.columns)}
       THEN "not part of the table"
  ELSE validate_row_keys_any_column(table, row_columns, i + 1)

\* The first loop: the first key of the row that is not writable.
RECURSIVE validate_row_keys(_, _, _)
validate_row_keys(table, row_columns, i) ==
  IF i > Len(row_columns) THEN "ok"
  ELSE IF row_columns[i] \notin SeqRange(get_writable_columns(table))
       THEN IF row_columns[i] \notin {table.columns[j].name : j \in 1..Len(table.columns)}
            THEN "not part of the table"
            ELSE "autogenerated"
  ELSE validate_row_keys(table, row_columns, i + 1)

\* The second loop as if it were three passes over the columns: presence of every
\* column first, then the None values, then the types.
validate_row_columns_by_check(table, row, i) ==
  LET cols == {table.columns[k] : k \in i..Len(table.columns)}
      present == {col \in cols : col.name \in SeqRange(columns(row))}
  IN IF \E col \in cols \ present :
          /\ ~(col.generated_identity \in {ALWAYS, BY_DEFAULT} \/ col.default # PyNone)
          /\ Truthy(col.not_null)
     THEN "required but not provided"
     ELSE IF \E col \in present : Truthy(col.not_null) /\ getitem(row, col.name) = PyNone
     THEN "NOT NULL but provided as None"
     ELSE IF \E col \in present : ~IsInstance(getitem(row, col.name), col.sql_type.python_type)
     THEN "wrong type"
     ELSE "ok"

\* The second loop, over the table's columns in definition order.
RECURSIVE validate_row_columns(_, _, _)
validate_row_columns(table, row, i) ==
  IF i > Len(table.columns) THEN "ok"
  ELSE LET col == table.columns[i] IN
    IF col.name \notin SeqRange(columns(row))
    THEN IF col.generated_identity \in {ALWAYS, BY_DEFAULT} \/ col.default # PyNone
         THEN validate_row_columns(table, row, i + 1)
         ELSE IF Truthy(col.not_null) THEN "required but not provided"
         ELSE validate_row_columns(table, row, i + 1)
    ELSE LET value == getitem(row, col.name) IN
         IF Truthy(col.not_null) /\ value = PyNone THEN "NOT NULL but provided as None"
         ELSE IF ~IsInstance(value, col.sql_type.python_type) THEN "wrong type"
         ELSE validate_row_columns(table, row, i + 1)

validate_row_outcome(table, row) ==
  IF validate_row_keys(table, columns(row), 1) # "ok"
  THEN validate_row_keys(table, columns(row), 1)
  ELSE validate_row_columns(table, row, 1)

validate_row(table, row) == validate_row_outcome(table, row) = "ok"

(***************************************************************************)
(* DataValidator (bread.sql.validation).  It reads col.autoincrement and   *)
(* col.typ, attributes of a Column class that is not among the sources;    *)
(* they are taken from the declared behaviour: the column that may not be  *)
(* written, and the Python type of the column's SQL type.                  *)
(***************************************************************************)
autoincrement(col) == col.generated_identity = ALWAYS

typ(col) == col.sql_type.python_type

\* DataValidator.__init__: {tbl.name: tbl for tbl in tables}; get() finds the last of a name.
HasTable(tables, table_name) == \E i \in 1..Len(tables) : tables[i].name = table_name

TableNamed(tables, table_name) ==
  tables[CHOOSE i \in 1..Len(tables) :
           /\ tables[i].name = table_name
           /\ \A j \in (i + 1)..Len(tables) : tables[j].name # table_name]

IsAllowed(col) == ~autoincrement(col)

\* The loop over tbl.columns as if a supplied None were never looked at.
RECURSIVE validate_columns_null_unchecked(_, _, _)
validate_columns_null_unchecked(tbl, data, i) ==
  IF i > Len(tbl.columns) THEN "ok"
  ELSE LET col == tbl.columns[i]
           provided_cols == RowKeys(data)
       IN
    IF autoincrement(col) THEN validate_columns_null_unchecked(tbl, data, i + 1)
    ELSE IF Truthy(col.not_null) /\ col.default # PyNone /\ col.name \notin provided_cols
         THEN "Required column was not provided"
    ELSE IF col.name \notin provided_cols THEN validate_columns_null_unchecked(tbl, data, i + 1)
    ELSE LET value == getitem(data, col.name) IN
         IF value # PyNone /\ ~IsInstance(value, typ(col))
         THEN "Invalid data type"
         ELSE validate_columns_null_unchecked(tbl, data, i + 1)

\* The loop over tbl.columns.
RECURSIVE validate_columns(_, _, _)
validate_columns(tbl, data, i) ==
  IF i > Len(tbl.columns) THEN "ok"
  ELSE LET col == tbl.columns[i]
           provided_cols == RowKeys(data)
       IN
    IF autoincrement(col) THEN validate_columns(tbl, data, i + 1)
    ELSE IF Truthy(col.not_null) /\ col.default # PyNone /\ col.name \notin provided_cols
         THEN "Required column was not provided"
    ELSE IF col.name \notin provided_cols THEN validate_columns(tbl, data, i + 1)
    ELSE LET value == getitem(data, col.name) IN
         IF Truthy(col.not_null) /\ col.default = PyNone /\ value = PyNone
         THEN "Non-nullable column cannot be None"
         ELSE IF value # PyNone /\ ~IsInstance(value, typ(col))
         THEN "Invalid data type"
         ELSE validate_columns(tbl, data, i + 1)

\* validate as if self.tables.get(table_name) were used without the test for None.
validate_outcome_unguarded(tables, table_name, data) ==
  IF ~HasTable(tables, table_name) THEN "AttributeError"
  ELSE LET tbl == TableNamed(tables, table_name)
           allowed_cols == SeqRange(SelectNames(tbl.columns, IsAllowed, 1))
       IN IF ~(RowKeys(data) \subseteq allowed_cols) THEN "Invalid column name(s) provided"
          ELSE validate_columns(tbl, data, 1)

validate_outcome(tables, table_name, data) ==
  IF ~HasTable(tables, table_name) THEN "Invalid table name"
  ELSE LET tbl == TableNamed(tables, table_name)
           allowed_cols == SeqRange(SelectNames(tbl.columns, IsAllowed, 1))
       IN IF ~(RowKeys(data) \subseteq allowed_cols) THEN "Invalid column name(s) provided"
          ELSE validate_columns(tbl, data, 1)

validate(tables, table_name, data) == validate_outcome(tables, table_name, data) = "ok"

(***************************************************************************)
(* Table.insert (brad) and Table.get_insert_statement (bread): the column  *)
(* list and the value tuples handed to executemany.                        *)
(***************************************************************************)
ValuesOf(row, cols) == [k \in 1..Len(cols) |-> getitem(row, cols[k])]

\* tuple(row[col] for col in columns) raises AttributeError for a key the row lacks.
insert_raises(table, rows) ==
  \E k \in 1..Len(rows) :
    /\ validate_row(table, rows[k])
    /\ \E c \in SeqRange(columns(rows[1])) : Raises_getitem(rows[k], c)

\* The loop as if every row were appended, valid or not.
RECURSIVE insert_vals_unvalidated(_, _, _)
insert_vals_unvalidated(table, rows, k) ==
  IF k > Len(rows) THEN << >>
  ELSE <<[c \in 1..Len(columns(rows[1])) |-> getitem_or_none(rows[k], columns(rows[1])[c])]>>
         \o insert_vals_unvalidated(table, rows, k + 1)

RECURSIVE insert_vals(_, _, _)
insert_vals(table, rows, k) ==
  IF k > Len(rows) THEN << >>
  ELSE IF validate_row(table, rows[k])
       THEN <<ValuesOf(rows[k], columns(rows[1]))>> \o insert_vals(table, rows, k + 1)
  ELSE insert_vals(table, rows, k + 1)

InData(col, data) == \E r \in 1..Len(data) : col.name \in RowKeys(data[r])

RECURSIVE DataColumns(_, _, _)
DataColumns(cols, data, i) ==
  IF i > Len(cols) THEN << >>
  ELSE IF InData(cols[i], data) THEN <<cols[i].name>> \o DataColumns(cols, data, i + 1)
  ELSE DataColumns(cols, data, i + 1)

\* Table.get_insert_statement: None for a table without data.
has_insert_statement(table) == table.seed # << >>

\* The statement as if its columns were the keys of the first row (as Table.insert of brad takes them).
get_insert_statement_first_row_columns(table) ==
  LET cols == columns(table.seed[1]) IN
  [table |-> table.name,
   columns |-> cols,
   rows |-> [r \in 1..Len(table.seed) |->
               [k \in 1..Len(cols) |-> getitem_or_none(table.seed[r], cols[k])]]]

get_insert_statement(table) ==
  LET cols == DataColumns(table.columns, table.seed, 1) IN
  [table |-> table.name,
   columns |-> cols,
   rows |-> [r \in 1..Len(table.seed) |->
               [k \in 1..Len(cols) |-> getitem_or_none(table.seed[r], cols[k])]]]

\* The seed statements as if collected over reversed(TABLES).
RECURSIVE seed_data_reversed(_, _)
seed_data_reversed(tbls, i) ==
  IF i > Len(tbls) THEN << >>
  ELSE IF has_insert_statement(tbls[i])
       THEN seed_data_reversed(tbls, i + 1) \o <<get_insert_statement(tbls[i])>>
  ELSE seed_data_reversed(tbls, i + 1)

\* seed_data = [statement for tbl in TABLES if (statement := tbl.get_insert_statement()) is not None]
RECURSIVE seed_data(_, _)
seed_data(tbls, i) ==
  IF i > Len(tbls) THEN << >>
  ELSE IF has_insert_statement(tbls[i])
       THEN <<get_insert_statement(tbls[i])>> \o seed_data(tbls, i + 1)
  ELSE seed_data(tbls, i + 1)

(***************************************************************************)
(* The database behind the executor: whether it exists (the SQLite file),  *)
(* its tables and their rows.  Statements act on the transaction's view.   *)
(***************************************************************************)
NoDatabase == [exists |-> FALSE, tables |-> {}, rows |-> {}]
EmptyDatabase == [exists |-> TRUE, tables |-> {}, rows |-> {}]

\* DROP TABLE IF EXISTS "<name>" CASCADE
ExecDrop(db, name) ==
  [db EXCEPT !.tables = @ \ {name}, !.rows = {r \in @ : r[1] # name}]

\* CREATE TABLE IF NOT EXISTS "<name>" (...)
ExecCreate(db, name) == [db EXCEPT !.tables = @ \cup {name}]

\* INSERT INTO "<name>" (<cols>) VALUES (...), once per value tuple
ExecInsert(db, name, cols, vals) ==
  [db EXCEPT !.rows = @ \cup {<<name, cols, vals[k]>> : k \in 1..Len(vals)}]

Stmt(op, name, cols, vals, ok) ==
  [op |-> op, table |-> name, columns |-> cols, rows |-> vals, ok |-> ok]

Ddl(op, name, ok) == Stmt(op, name, << >>, << >>, ok)

TxCall(op) == Stmt(op, "", << >>, << >>, TRUE)

(***************************************************************************)
(* Bounds of the model.                                                    *)
(***************************************************************************)
\* The longest seed list attached to a table of a generated registry.
MaxSeedRows == 2
\* The most keys of a row handed to a validator.
MaxRowKeys == 2
\* Rows are drawn for the tables with at most this many columns.
MaxValCols == 7

(***************************************************************************)
(* State.                                                                  *)
(***************************************************************************)
VARIABLES
  tables,     \* the registry: get_all_tables() / TABLES
  backend,    \* "postgres" (brad) or "sqlite" (bread)
  entry,      \* the entry point being executed, "" when idle
  force,      \* its force argument
  seed,       \* its seed argument
  pc,         \* the position inside the entry point
  i,          \* the index of the loop it is in
  log,        \* the statements and transaction calls issued on the connection
  error,      \* the exception in flight: "" when there is none
  result,     \* how the call ended: "" while it runs
  committed,  \* the database as committed
  working,    \* the database as the open transaction sees it
  before,     \* the committed database when the call began
  check,      \* the last validator call: its input and its outcome
  built,      \* the last Column construction: its arguments, the column and its SQL
  made        \* the last object built or call made outside a schema run, and what it gave

vars == <<tables, backend, entry, force, seed, pc, i, log, error, result,
          committed, working, before, check, built, made>>

NoCheck == [validator |-> "", table |-> "", row |-> << >>, outcome |-> ""]

NoObject == [kind |-> ""]

NoColumn == [class |-> "", args |-> << >>, raised |-> FALSE, column |-> PyNone, sql |-> ""]

\* Seed rows of the test suites: two valid rows with different keys, and a row without its required name.
SeedRowChoices ==
  { Row(NoData, << <<"name", PyStr("Test1")>>, <<"is_active", PyBool("True")>> >>),
    Row(NoData, << <<"id", PyInt("1")>>, <<"name", PyStr("Test")>> >>),
    Row(NoData, << <<"is_active", PyBool("True")>> >>) }

SeedLists == UNION { [1..n -> SeedRowChoices] : n \in 0..MaxSeedRows }

\* Registries built with set_seed from the test tables.
SeededRegistries ==
  { << set_seed(TEST_TABLE, sa), set_seed(TEST_TABLES[3], sb) >> :
      sa \in SeedLists,
      sb \in { << >>, << Row(NoData, << <<"id", PyInt("1")>>, <<"type", PyStr("Electronics")>> >>) >> } }

Registries == {get_all_tables, TABLES, TEST_TABLES} \cup SeededRegistries

Idle ==
  /\ entry = "" /\ force = FALSE /\ seed = FALSE
  /\ pc = "idle" /\ i = 0 /\ log = << >> /\ error = "" /\ result = ""
  /\ check = NoCheck
  /\ built = NoColumn
  /\ made = NoObject

Init ==
  /\ tables \in Registries
  /\ backend \in {"postgres", "sqlite"}
  /\ committed = IF backend = "sqlite" THEN NoDatabase ELSE EmptyDatabase
  /\ working = committed
  /\ before = committed
  /\ Idle

Names(tbls) == {tbls[k].name : k \in 1..Len(tbls)}

\* The call begins: its arguments are bound and the log of the connection is empty.
Enter(name, f, s) ==
  /\ pc = "idle"
  /\ entry' = name /\ force' = f /\ seed' = s
  /\ log' = << >>
  /\ before' = committed
  /\ UNCHANGED <<tables, backend, made, built, check>>

\* The statement op on tables[i] is issued and succeeds or raises; it acts only when it succeeds.
Issue(stmt, effect(_)) ==
  \E ok \in BOOLEAN :
    /\ log' = Append(log, [stmt EXCEPT !.ok = ok])
    /\ working' = IF ok THEN effect(working) ELSE working
    /\ error' = IF ok THEN "" ELSE "Error"

(***************************************************************************)
(* create_schema(db_manager, force, seed) of brad.sql.schema               *)
(***************************************************************************)
\* create_schema as if the drops were not guarded by force.
create_schema_begin_ignores_force ==
  \E f \in BOOLEAN, s \in BOOLEAN, connected \in BOOLEAN :
    /\ backend = "postgres"
    /\ Enter("create_schema", f, s)
    /\ IF connected
       THEN /\ pc' = "drop"
            /\ i' = Len(tables)
            /\ UNCHANGED <<error, result>>
       ELSE /\ pc' = "done" /\ error' = "Error" /\ result' = "raised"
            /\ UNCHANGED i
    /\ UNCHANGED <<committed, working>>

create_schema_begin ==
  \E f \in BOOLEAN, s \in BOOLEAN, connected \in BOOLEAN :
    /\ backend = "postgres"
    /\ Enter("create_schema", f, s)
    /\ IF connected
       THEN /\ pc' = IF f THEN "drop" ELSE "create"
            /\ i' = IF f THEN Len(tables) ELSE 1
            /\ UNCHANGED <<error, result>>
       ELSE /\ pc' = "done" /\ error' = "Error" /\ result' = "raised"
            /\ UNCHANGED i
    /\ UNCHANGED <<committed, working>>

\* for table in reversed(tables): table.drop(conn)
create_schema_drop ==
  /\ entry = "create_schema" /\ pc = "drop"
  /\ LET Drop(db) == ExecDrop(db, tables[i].name) IN Issue(Ddl("DROP", tables[i].name, TRUE), Drop)
  /\ IF error' # "" THEN pc' = "except" /\ UNCHANGED i
     ELSE IF i > 1 THEN pc' = "drop" /\ i' = i - 1
     ELSE pc' = "create" /\ i' = 1
  /\ UNCHANGED <<tables, backend, made, built, entry, force, seed, result, committed, before, check>>

\* create_schema as if each table were seeded right after the first create.
create_schema_create_seeds_early ==
  /\ entry = "create_schema" /\ pc = "create"
  /\ LET Create(db) == ExecCreate(db, tables[i].name) IN Issue(Ddl("CREATE", tables[i].name, TRUE), Create)
  /\ IF error' # "" THEN pc' = "except" /\ UNCHANGED i
     ELSE IF seed THEN pc' = "seed" /\ i' = 1
     ELSE IF i < Len(tables) THEN pc' = "create" /\ i' = i + 1
     ELSE pc' = "else" /\ UNCHANGED i
  /\ UNCHANGED <<tables, backend, made, built, entry, force, seed, result, committed, before, check>>

\* for table in tables: table.create(conn)
create_schema_create ==
  /\ entry = "create_schema" /\ pc = "create"
  /\ LET Create(db) == ExecCreate(db, tables[i].name) IN Issue(Ddl("CREATE", tables[i].name, TRUE), Create)
  /\ IF error' # "" THEN pc' = "except" /\ UNCHANGED i
     ELSE IF i < Len(tables) THEN pc' = "create" /\ i' = i + 1
     ELSE IF seed THEN pc' = "seed" /\ i' = 1
     ELSE pc' = "else" /\ UNCHANGED i
  /\ UNCHANGED <<tables, backend, made, built, entry, force, seed, result, committed, before, check>>

\* for table in tables: if table.seed: table.insert(conn, table.seed)
create_schema_seed ==
  /\ entry = "create_schema" /\ pc = "seed"
  /\ LET table == tables[i]
         vals == insert_vals(table, table.seed, 1)
         Insert(db) == ExecInsert(db, table.name, columns(table.seed[1]), vals)
     IN IF table.seed = << >>
        THEN UNCHANGED <<log, working, error>>
        ELSE IF insert_raises(table, table.seed)
        THEN error' = "AttributeError" /\ UNCHANGED <<log, working>>
        ELSE IF vals = << >>
        THEN UNCHANGED <<log, working, error>>
        ELSE Issue(Stmt("INSERT", table.name, columns(table.seed[1]), vals, TRUE), Insert)
  /\ IF error' # "" THEN pc' = "except" /\ UNCHANGED i
     ELSE IF i < Len(tables) THEN pc' = "seed" /\ i' = i + 1
     ELSE pc' = "else" /\ UNCHANGED i
  /\ UNCHANGED <<tables, backend, made, built, entry, force, seed, result, committed, before, check>>

\* create_schema as if the handler committed what had been done.
create_schema_except_commits ==
  /\ entry = "create_schema" /\ pc = "except"
  /\ log' = Append(log, TxCall("COMMIT"))
  /\ committed' = working
  /\ pc' = "exit"
  /\ UNCHANGED <<tables, backend, made, built, entry, force, seed, i, error, result, working, before, check>>

\* except Exception: conn.rollback(); raise
create_schema_except ==
  /\ entry = "create_schema" /\ pc = "except"
  /\ log' = Append(log, TxCall("ROLLBACK"))
  /\ working' = committed
  /\ pc' = "exit"
  /\ UNCHANGED <<tables, backend, made, built, entry, force, seed, i, error, result, committed, before, check>>

\* else: conn.commit()
create_schema_else ==
  /\ entry = "create_schema" /\ pc = "else"
  /\ log' = Append(log, TxCall("COMMIT"))
  /\ committed' = working
  /\ pc' = "exit"
  /\ UNCHANGED <<tables, backend, made, built, entry, force, seed, i, error, result, working, before, check>>

\* The with block is left: the connection commits, or rolls back when an exception passes through.
create_schema_exit ==
  /\ entry = "create_schema" /\ pc = "exit"
  /\ log' = Append(log, TxCall(IF error = "" THEN "COMMIT" ELSE "ROLLBACK"))
  /\ result' = IF error = "" THEN "returned" ELSE "raised"
  /\ pc' = "done"
  /\ UNCHANGED <<tables, backend, made, built, entry, force, seed, i, error, committed, working, before, check>>

(***************************************************************************)
(* drop_schema(db_manager) of brad.sql.schema                              *)
(***************************************************************************)
drop_schema_begin ==
  \E connected \in BOOLEAN :
    /\ backend = "postgres"
    /\ Enter("drop_schema", FALSE, FALSE)
    /\ IF connected
       THEN pc' = "drop" /\ i' = Len(tables) /\ UNCHANGED <<error, result>>
       ELSE pc' = "done" /\ error' = "Error" /\ result' = "raised" /\ UNCHANGED i
    /\ UNCHANGED <<committed, working>>

\* drop_schema as if the tables were dropped in registry order.
drop_schema_drop_forward ==
  /\ entry = "drop_schema" /\ pc = "drop"
  /\ LET name == tables[Len(tables) - i + 1].name
         Drop(db) == ExecDrop(db, name)
     IN Issue(Ddl("DROP", name, TRUE), Drop)
  /\ IF error' # "" THEN pc' = "except" /\ UNCHANGED i
     ELSE IF i > 1 THEN pc' = "drop" /\ i' = i - 1
     ELSE pc' = "else" /\ UNCHANGED i
  /\ UNCHANGED <<tables, backend, made, built, entry, force, seed, result, committed, before, check>>

\* for table in reversed(tables): table.drop(conn)
drop_schema_drop ==
  /\ entry = "drop_schema" /\ pc = "drop"
  /\ LET Drop(db) == ExecDrop(db, tables[i].name) IN Issue(Ddl("DROP", tables[i].name, TRUE), Drop)
  /\ IF error' # "" THEN pc' = "except" /\ UNCHANGED i
     ELSE IF i > 1 THEN pc' = "drop" /\ i' = i - 1
     ELSE pc' = "else" /\ UNCHANGED i
  /\ UNCHANGED <<tables, backend, made, built, entry, force, seed, result, committed, before, check>>

drop_schema_except ==
  /\ entry = "drop_schema" /\ pc = "except"
  /\ log' = Append(log, TxCall("ROLLBACK"))
  /\ working' = committed
  /\ pc' = "exit"
  /\ UNCHANGED <<tables, backend, made, built, entry, force, seed, i, error, result, committed, before, check>>

drop_schema_else ==
  /\ entry = "drop_schema" /\ pc = "else"
  /\ log' = Append(log, TxCall("COMMIT"))
  /\ committed' = working
  /\ pc' = "exit"
  /\ UNCHANGED <<tables, backend, made, built, entry, force, seed, i, error, result, working, before, check>>

drop_schema_exit ==
  /\ entry = "drop_schema" /\ pc = "exit"
  /\ log' = Append(log, TxCall(IF error = "" THEN "COMMIT" ELSE "ROLLBACK"))
  /\ result' = IF error = "" THEN "returned" ELSE "raised"
  /\ pc' = "done"
  /\ UNCHANGED <<tables, backend, made, built, entry, force, seed, i, error, committed, working, before, check>>

(***************************************************************************)
(* DatabaseManager.initialize_schema(force, seed) of brad.sql.database     *)
(***************************************************************************)
initialize_schema_begin ==
  \E f \in BOOLEAN, s \in BOOLEAN, connected \in BOOLEAN :
    /\ backend = "postgres"
    /\ Enter("initialize_schema", f, s)
    /\ IF connected
       THEN /\ pc' = IF f THEN "drop" ELSE "create"
            /\ i' = IF f THEN Len(tables) ELSE 1
            /\ UNCHANGED <<error, result>>
       ELSE /\ pc' = "done" /\ error' = "Error" /\ result' = "False"
            /\ UNCHANGED i
    /\ UNCHANGED <<committed, working>>

\* for tbl in reversed(TABLES): cursor.execute(DROP TABLE IF EXISTS ... CASCADE)
initialize_schema_drop ==
  /\ entry = "initialize_schema" /\ pc = "drop"
  /\ LET Drop(db) == ExecDrop(db, tables[i].name) IN Issue(Ddl("DROP", tables[i].name, TRUE), Drop)
  /\ IF error' # "" THEN pc' = "exit" /\ UNCHANGED i
     ELSE IF i > 1 THEN pc' = "drop" /\ i' = i - 1
     ELSE pc' = "create" /\ i' = 1
  /\ UNCHANGED <<tables, backend, made, built, entry, force, seed, result, committed, before, check>>

\* for tbl in TABLES: cursor.execute(tbl.get_create_statement())
initialize_schema_create ==
  /\ entry = "initialize_schema" /\ pc = "create"
  /\ LET Create(db) == ExecCreate(db, tables[i].name) IN Issue(Ddl("CREATE", tables[i].name, TRUE), Create)
  /\ IF error' # "" THEN pc' = "exit" /\ UNCHANGED i
     ELSE IF i < Len(tables) THEN pc' = "create" /\ i' = i + 1
     ELSE IF seed /\ seed_data(tables, 1) # << >> THEN pc' = "seed" /\ i' = 1
     ELSE pc' = "exit" /\ UNCHANGED i
  /\ UNCHANGED <<tables, backend, made, built, entry, force, seed, result, committed, before, check>>

\* for sql, rows in seed_data: cursor.executemany(sql, rows)
initialize_schema_seed ==
  /\ entry = "initialize_schema" /\ pc = "seed"
  /\ LET st == seed_data(tables, 1)[i]
         Insert(db) == ExecInsert(db, st.table, st.columns, st.rows)
     IN Issue(Stmt("INSERT", st.table, st.columns, st.rows, TRUE), Insert)
  /\ IF error' # "" THEN pc' = "exit" /\ UNCHANGED i
     ELSE IF i < Len(seed_data(tables, 1)) THEN pc' = "seed" /\ i' = i + 1
     ELSE pc' = "exit" /\ UNCHANGED i
  /\ UNCHANGED <<tables, backend, made, built, entry, force, seed, result, committed, before, check>>

\* The with blocks are left (commit, or rollback on an exception); except (psycopg2.Error, TypeError): return False
initialize_schema_exit ==
  /\ entry = "initialize_schema" /\ pc = "exit"
  /\ log' = Append(log, TxCall(IF error = "" THEN "COMMIT" ELSE "ROLLBACK"))
  /\ committed' = IF error = "" THEN working ELSE committed
  /\ working' = IF error = "" THEN working ELSE committed
  /\ result' = IF error = "" THEN "True" ELSE "False"
  /\ pc' = "done"
  /\ UNCHANGED <<tables, backend, made, built, entry, force, seed, i, error, before, check>>

(***************************************************************************)
(* DatabaseManager.initialize_schema(force) of bread.sql.database (SQLite) *)
(***************************************************************************)
\* os.remove / early return, then sqlite3.connect inside the try block.
sqlite_initialize_schema_begin ==
  \E f \in BOOLEAN, connected \in BOOLEAN :
    /\ backend = "sqlite"
    /\ Enter("sqlite_initialize_schema", f, TRUE)
    /\ IF ~f /\ committed.exists
       THEN /\ pc' = "done" /\ result' = "returned"
            /\ UNCHANGED <<i, error, committed, working>>
       ELSE IF connected
       THEN /\ committed' = EmptyDatabase /\ working' = EmptyDatabase
            /\ pc' = "create" /\ i' = 1
            /\ UNCHANGED <<error, result>>
       ELSE /\ committed' = NoDatabase /\ working' = NoDatabase
            /\ pc' = "done" /\ error' = "Error" /\ result' = "returned"
            /\ UNCHANGED i

\* for tbl in TABLES: conn.execute(tbl.get_create_statement())
sqlite_initialize_schema_create ==
  /\ entry = "sqlite_initialize_schema" /\ pc = "create"
  /\ LET Create(db) == ExecCreate(db, tables[i].name) IN Issue(Ddl("CREATE", tables[i].name, TRUE), Create)
  /\ IF error' # "" THEN pc' = "exit" /\ UNCHANGED i
     ELSE IF i < Len(tables) THEN pc' = "create" /\ i' = i + 1
     ELSE IF seed_data(tables, 1) # << >> THEN pc' = "seed" /\ i' = 1
     ELSE pc' = "exit" /\ UNCHANGED i
  /\ UNCHANGED <<tables, backend, made, built, entry, force, seed, result, committed, before, check>>

\* for sql, rows in seed_data: conn.executemany(sql, rows)
sqlite_initialize_schema_seed ==
  /\ entry = "sqlite_initialize_schema" /\ pc = "seed"
  /\ LET st == seed_data(tables, 1)[i]
         Insert(db) == ExecInsert(db, st.table, st.columns, st.rows)
     IN Issue(Stmt("INSERT", st.table, st.columns, st.rows, TRUE), Insert)
  /\ IF error' # "" THEN pc' = "exit" /\ UNCHANGED i
     ELSE IF i < Len(seed_data(tables, 1)) THEN pc' = "seed" /\ i' = i + 1
     ELSE pc' = "exit" /\ UNCHANGED i
  /\ UNCHANGED <<tables, backend, made, built, entry, force, seed, result, committed, before, check>>

\* The with block is left; except (sqlite3.Error, TypeError): the database file is removed.
sqlite_initialize_schema_exit ==
  /\ entry = "sqlite_initialize_schema" /\ pc = "exit"
  /\ log' = Append(log, TxCall(IF error = "" THEN "COMMIT" ELSE "ROLLBACK"))
  /\ committed' = IF error = "" THEN working ELSE NoDatabase
  /\ working' = IF error = "" THEN working ELSE NoDatabase
  /\ result' = "returned"
  /\ pc' = "done"
  /\ UNCHANGED <<tables, backend, made, built, entry, force, seed, i, error, before, check>>

(***************************************************************************)
(* The validators, applied to a table of the registry and a row.           *)
(***************************************************************************)
InputValues ==
  {PyNone, PyInt("1"), PyBool("True"), PyStr("x"), PyDecimal("19.99"),
   PyDate("2024-01-01"), PyFloat("19.99")}

\* The keys a row may carry: the table's columns and one name that is no column.
KeyUniverse(table) == columns([k \in 1..Len(table.columns) |-> <<table.columns[k].name>>]) \o <<"location">>

RECURSIVE Ascending(_)
Ascending(S) ==
  IF S = {} THEN << >>
  ELSE LET m == CHOOSE x \in S : \A y \in S : x <= y IN <<m>> \o Ascending(S \ {m})

InputRows(table) ==
  LET U == KeyUniverse(table) IN
  UNION { { LET ks == Ascending(K) IN [n \in 1..Len(ks) |-> <<U[ks[n]], f[ks[n]]>>] :
              f \in [K -> InputValues] } :
          K \in {K \in SUBSET (1..Len(U)) : Cardinality(K) <= MaxRowKeys} }

SmallTables(tbls) == {k \in 1..Len(tbls) : Len(tbls[k].columns) <= MaxValCols}

\* Table._validate_row(row), on the tables of brad.sql.schema and of its tests
ValidateRow ==
  /\ pc = "idle"
  /\ tables \in {get_all_tables, TEST_TABLES, <<TEST_TABLE>>}
  /\ \E t \in SmallTables(tables) : \E row \in InputRows(tables[t]) :
       check' = [validator |-> "_validate_row", table |-> tables[t].name, row |-> row,
                 outcome |-> validate_row_outcome(tables[t], row)]
  /\ pc' = "validated"
  /\ UNCHANGED <<tables, backend, made, built, entry, force, seed, i, log, error, result, committed, working, before>>

\* DataValidator(TABLES).validate(table_name, data), on bread.sql.tables and the test tables
Validate ==
  /\ pc = "idle"
  /\ tables \in {TABLES, TEST_TABLES}
  /\ \E t \in SmallTables(tables) : \E data \in InputRows(tables[t]) :
     \E table_name \in {tables[t].name, "non_existent_table"} :
       check' = [validator |-> "validate", table |-> table_name, row |-> data,
                 outcome |-> validate_outcome(tables, table_name, data)]
  /\ pc' = "validated"
  /\ UNCHANGED <<tables, backend, made, built, entry, force, seed, i, log, error, result, committed, working, before>>

\* The call has returned (or raised) to its caller.
Return ==
  /\ pc \in {"done", "validated", "constructed", "rendered", "made"}
  /\ entry' = "" /\ force' = FALSE /\ seed' = FALSE
  /\ pc' = "idle" /\ i' = 0 /\ log' = << >> /\ error' = "" /\ result' = ""
  /\ check' = NoCheck
  /\ built' = NoColumn
  /\ working' = committed
  /\ before' = committed
  /\ UNCHANGED <<tables, backend, committed>>
  /\ made' = NoObject

Next ==
  \/ create_schema_begin \/ create_schema_drop \/ create_schema_create
  \/ create_schema_seed \/ create_schema_except \/ create_schema_else \/ create_schema_exit
  \/ drop_schema_begin \/ drop_schema_drop \/ drop_schema_except \/ drop_schema_else
  \/ drop_schema_exit
  \/ initialize_schema_begin \/ initialize_schema_drop \/ initialize_schema_create
  \/ initialize_schema_seed \/ initialize_schema_exit
  \/ sqlite_initialize_schema_begin \/ sqlite_initialize_schema_create
  \/ sqlite_initialize_schema_seed \/ sqlite_initialize_schema_exit
  \/ Return

Spec == Init /\ [][Next]_vars

\* The validators on the catalogs and the test tables.
InitValidation ==
  /\ tables \in {get_all_tables, TABLES, TEST_TABLES, <<TEST_TABLE>>}
  /\ backend = "postgres"
  /\ committed = EmptyDatabase
  /\ working = committed
  /\ before = committed
  /\ Idle

NextValidation == ValidateRow \/ Validate \/ Return

SpecValidation == InitValidation /\ [][NextValidation]_vars

(***************************************************************************)
(* DatabaseManager.insert(table_name, data): validate, then one INSERT in  *)
(* a connection of its own.  brad (PostgreSQL) and bread (SQLite).         *)
(***************************************************************************)
\* Rows are inserted into the tables with at most this many columns.
MaxInsertCols == 3

InsertTables(tbls) == {k \in 1..Len(tbls) : Len(tbls[k].columns) <= MaxInsertCols}

Connect(ok) == Stmt("CONNECT", "", << >>, << >>, ok)

\* columns = tuple(data.keys()); values = tuple(data.values())
insert_statement(table_name, data) ==
  Stmt("INSERT", table_name, [k \in 1..Len(data) |-> data[k][1]],
       << [k \in 1..Len(data) |-> data[k][2]] >>, TRUE)

\* The call begins: table_name and data are bound and the validator is asked.
\* A manager is followed up to the first row it commits.
InsertCall(name) ==
  /\ pc = "idle"
  /\ committed.rows = {}
  /\ entry' = name /\ force' = FALSE /\ seed' = FALSE
  /\ log' = << >>
  /\ before' = committed
  /\ \E t \in InsertTables(tables) : \E data \in InputRows(tables[t]) :
     \E table_name \in {tables[t].name, "non_existent_table"} :
       check' = [validator |-> "validate", table |-> table_name, row |-> data,
                 outcome |-> validate_outcome(tables, table_name, data)]
  /\ UNCHANGED <<tables, backend, made, built, i, error, committed, working>>

\* insert as if the row were handed to the executor whatever the validator said.
insert_begin_unvalidated ==
  /\ backend = "postgres"
  /\ InsertCall("insert")
  /\ pc' = "connect" /\ result' = ""

\* if not self.validator.validate(table_name, data): return False
insert_begin ==
  /\ backend = "postgres"
  /\ InsertCall("insert")
  /\ IF check'.outcome = "ok"
     THEN pc' = "connect" /\ result' = ""
     ELSE pc' = "done" /\ result' = "False"

\* with self.get_connection() as conn: psycopg2.connect(...)
insert_connect ==
  /\ entry = "insert" /\ pc = "connect"
  /\ \E connected \in BOOLEAN :
       /\ log' = Append(log, Connect(connected))
       /\ IF connected
          THEN pc' = "execute" /\ UNCHANGED <<error, result>>
          ELSE pc' = "done" /\ error' = "Error" /\ result' = "False"
  /\ UNCHANGED <<tables, backend, made, built, entry, force, seed, i, committed, working, before, check>>

\* with conn.cursor() as cursor: cursor.execute(sql, values)
insert_execute ==
  /\ entry = "insert" /\ pc = "execute"
  /\ LET st == insert_statement(check.table, check.row)
         Insert(db) == ExecInsert(db, st.table, st.columns, st.rows)
     IN Issue(st, Insert)
  /\ pc' = "exit"
  /\ UNCHANGED <<tables, backend, made, built, entry, force, seed, i, result, committed, before, check>>

\* insert as if it answered True however the statement ended.
insert_exit_always_true ==
  /\ entry = "insert" /\ pc = "exit"
  /\ log' = Append(log, TxCall(IF error = "" THEN "COMMIT" ELSE "ROLLBACK"))
  /\ committed' = IF error = "" THEN working ELSE committed
  /\ working' = IF error = "" THEN working ELSE committed
  /\ result' = "True"
  /\ pc' = "done"
  /\ UNCHANGED <<tables, backend, made, built, entry, force, seed, i, error, before, check>>

\* The with block is left: commit and return True, or rollback and except psycopg2.Error: return False.
insert_exit ==
  /\ entry = "insert" /\ pc = "exit"
  /\ log' = Append(log, TxCall(IF error = "" THEN "COMMIT" ELSE "ROLLBACK"))
  /\ committed' = IF error = "" THEN working ELSE committed
  /\ working' = IF error = "" THEN working ELSE committed
  /\ result' = IF error = "" THEN "True" ELSE "False"
  /\ pc' = "done"
  /\ UNCHANGED <<tables, backend, made, built, entry, force, seed, i, error, before, check>>

\* bread: if not self.validator.validate(table_name, data): return False
sqlite_insert_begin ==
  /\ backend = "sqlite"
  /\ InsertCall("sqlite_insert")
  /\ IF check'.outcome = "ok"
     THEN pc' = "connect" /\ result' = ""
     ELSE pc' = "done" /\ result' = "False"

\* with self.get_connection(enforce_fk) as conn: sqlite3.connect(...), then
\* conn.execute("PRAGMA foreign_keys = ON;") if enforce_fk.  The argument is read
\* only here, so it is drawn here.
sqlite_insert_connect ==
  /\ entry = "sqlite_insert" /\ pc = "connect"
  /\ \E enforce_fk \in BOOLEAN, connected \in BOOLEAN, pragma \in BOOLEAN :
       /\ ~(connected /\ enforce_fk) => pragma
       /\ log' = IF connected /\ enforce_fk
                 THEN log \o << Connect(TRUE), Ddl("PRAGMA", "", pragma) >>
                 ELSE Append(log, Connect(connected))
       /\ IF connected /\ pragma
          THEN pc' = "execute" /\ UNCHANGED <<error, result>>
          ELSE pc' = "done" /\ error' = "Error" /\ result' = "False"
  /\ UNCHANGED <<tables, backend, made, built, entry, force, seed, i, committed, working, before, check>>

\* conn.execute(sql, values)
sqlite_insert_execute ==
  /\ entry = "sqlite_insert" /\ pc = "execute"
  /\ LET st == insert_statement(check.table, check.row)
         Insert(db) == ExecInsert(db, st.table, st.columns, st.rows)
     IN Issue(st, Insert)
  /\ pc' = "exit"
  /\ UNCHANGED <<tables, backend, made, built, entry, force, seed, i, result, committed, before, check>>

\* The with block is left: commit and return True, or rollback and except sqlite3.Error: return False.
sqlite_insert_exit ==
  /\ entry = "sqlite_insert" /\ pc = "exit"
  /\ log' = Append(log, TxCall(IF error = "" THEN "COMMIT" ELSE "ROLLBACK"))
  /\ committed' = IF error = "" THEN working ELSE committed
  /\ working' = IF error = "" THEN working ELSE committed
  /\ result' = IF error = "" THEN "True" ELSE "False"
  /\ pc' = "done"
  /\ UNCHANGED <<tables, backend, made, built, entry, force, seed, i, error, before, check>>

\* A manager over a database whose schema has been initialized.
InitInsert ==
  /\ tables \in {TABLES, TEST_TABLES}
  /\ backend \in {"postgres", "sqlite"}
  /\ committed = [exists |-> TRUE, tables |-> Names(tables), rows |-> {}]
  /\ working = committed
  /\ before = committed
  /\ Idle

NextInsert ==
  \/ insert_begin \/ insert_connect \/ insert_execute \/ insert_exit
  \/ sqlite_insert_begin \/ sqlite_insert_connect \/ sqlite_insert_execute
  \/ sqlite_insert_exit
  \/ Return

SpecInsert == InitInsert /\ [][NextInsert]_vars

(***************************************************************************)
(* Column(name, sql_type, generated_identity, not_null, default) and       *)
(* Column.to_sql(), of brad and of bread.                                  *)
(***************************************************************************)
NameChoices == {"id", "is_active"}

SqlTypes == {Integer, BigInt, Numeric(19, 4), Boolean, Date, Text}

IdentityChoices == {PyNone, ALWAYS, BY_DEFAULT}

NotNullChoices == {PyNone, PyBool("True"), PyBool("False")}

\* brad.sql.objects.Column(...)
Column_init ==
  /\ pc = "idle"
  /\ \E name \in NameChoices, sql_type \in SqlTypes, generated_identity \in IdentityChoices,
        not_null \in NotNullChoices, default \in InputValues :
       built' = [class |-> "brad",
                 args |-> <<name, sql_type, generated_identity, not_null, default>>,
                 raised |-> Column_raises(name, sql_type, generated_identity, not_null, default),
                 column |-> IF Column_raises(name, sql_type, generated_identity, not_null, default)
                            THEN PyNone
                            ELSE Column(name, sql_type, generated_identity, not_null, default),
                 sql |-> ""]
  /\ pc' = "constructed"
  /\ UNCHANGED <<tables, backend, made, entry, force, seed, i, log, error, result,
                 committed, working, before, check>>

\* bread.sql.objects.Column(...)
bread_Column_init ==
  /\ pc = "idle"
  /\ \E name \in NameChoices, sql_type \in SqlTypes, generated_identity \in IdentityChoices,
        not_null \in NotNullChoices, default \in InputValues :
       built' = [class |-> "bread",
                 args |-> <<name, sql_type, generated_identity, not_null, default>>,
                 raised |-> bread_Column_raises(name, sql_type, generated_identity, not_null, default),
                 column |-> IF bread_Column_raises(name, sql_type, generated_identity, not_null, default)
                            THEN PyNone
                            ELSE Column(name, sql_type, generated_identity, not_null, default),
                 sql |-> ""]
  /\ pc' = "constructed"
  /\ UNCHANGED <<tables, backend, made, entry, force, seed, i, log, error, result,
                 committed, working, before, check>>

\* col.to_sql() of the column just constructed
Column_to_sql ==
  /\ pc = "constructed"
  /\ ~built.raised
  /\ built' = [built EXCEPT !.sql = to_sql(built.column)]
  /\ pc' = "rendered"
  /\ UNCHANGED <<tables, backend, made, entry, force, seed, i, log, error, result,
                 committed, working, before, check>>

InitColumn ==
  /\ tables = TEST_TABLES
  /\ backend = "postgres"
  /\ committed = EmptyDatabase
  /\ working = committed
  /\ before = committed
  /\ Idle

NextColumn == Column_init \/ bread_Column_init \/ Column_to_sql \/ Return

SpecColumn == InitColumn /\ [][NextColumn]_vars

(***************************************************************************)
(* Objects built and rendered outside a schema run: the CREATE statement   *)
(* of a table, foreign keys, rows.                                         *)
(***************************************************************************)
\* bread: table.get_create_statement()
Table_get_create_statement ==
  /\ pc = "idle"
  /\ tables \in {TABLES, TEST_TABLES, <<TEST_TABLE>>}
  /\ \E t \in 1..Len(tables) :
       made' = [kind |-> "Table", class |-> "bread", table |-> tables[t],
                sql |-> get_create_statement(tables[t]), again |-> ""]
  /\ pc' = "created"
  /\ UNCHANGED <<tables, backend, entry, force, seed, i, log, error, result,
                 committed, working, before, check, built>>

\* brad: table.create(connection) builds the statement and executes it on a cursor
Table_create ==
  /\ pc = "idle"
  /\ tables \in {get_all_tables, TEST_TABLES, <<TEST_TABLE>>}
  /\ \E t \in 1..Len(tables), ok \in BOOLEAN :
       /\ made' = [kind |-> "Table", class |-> "brad", table |-> tables[t],
                   sql |-> get_create_statement(tables[t]), again |-> ""]
       /\ log' = Append(log, Ddl("CREATE", tables[t].name, ok))
       /\ error' = IF ok THEN "" ELSE "Error"
  /\ pc' = "created"
  /\ UNCHANGED <<tables, backend, entry, force, seed, i, result,
                 committed, working, before, check, built>>

\* The statement of the same table is generated once more.
Table_create_again ==
  /\ pc = "created"
  /\ made' = [made EXCEPT !.again = get_create_statement(made.table)]
  /\ pc' = "made"
  /\ UNCHANGED <<tables, backend, entry, force, seed, i, log, error, result,
                 committed, working, before, check, built>>

\* bread: table.get_insert_statement(), on the catalog and on tables given rows by insert_data
Table_get_insert_statement ==
  /\ pc = "idle"
  /\ tables \in {TABLES} \cup SeededRegistries
  /\ \E t \in 1..Len(tables) :
       made' = [kind |-> "insert_statement", table |-> tables[t],
                none |-> ~has_insert_statement(tables[t]),
                statement |-> IF has_insert_statement(tables[t])
                              THEN get_insert_statement(tables[t])
                              ELSE Stmt("", "", << >>, << >>, TRUE)]
  /\ pc' = "made"
  /\ UNCHANGED <<tables, backend, entry, force, seed, i, log, error, result,
                 committed, working, before, check, built>>

FkActions == {CASCADE, SET_NULL, SET_DEFAULT, RESTRICT, NO_ACTION}

\* ForeignKey(columns, ref_table, ref_columns[, on_delete][, on_update][, name])
ForeignKey_init ==
  /\ pc = "idle"
  /\ \E cols \in {<<"account_id">>, <<"date", "account_id">>},
        on_delete \in FkActions \cup {Absent}, on_update \in FkActions \cup {Absent},
        name \in {PyNone, PyStr(""), PyStr("fk_account")} :
       made' = [kind |-> "ForeignKey",
                args |-> <<cols, "account", cols, on_delete, on_update, name>>,
                constraint |-> ForeignKey(cols, "account", cols, ForeignKey_on_delete(on_delete),
                                          ForeignKey_on_update(on_update), name),
                sql |-> ""]
  /\ pc' = "constraint"
  /\ UNCHANGED <<tables, backend, entry, force, seed, i, log, error, result,
                 committed, working, before, check, built>>

\* constraint.to_sql() of the constraint just built
Constraint_to_sql_call ==
  /\ pc = "constraint"
  /\ made' = [made EXCEPT !.sql = Constraint_to_sql(made.constraint)]
  /\ pc' = "made"
  /\ UNCHANGED <<tables, backend, entry, force, seed, i, log, error, result,
                 committed, working, before, check, built>>

\* The mappings a Row is built from: keys in insertion order with their values.
Mappings(keys) ==
  LET vals == {PyInt("1"), PyStr("Test")} IN
  {<< >>} \cup {<<<<k, v>>>> : k \in keys, v \in vals}
          \cup {<<<<p[1], v>>, <<p[2], PyStr("Test")>>>> :
                  p \in {q \in keys \X keys : q[1] # q[2]}, v \in vals}

\* Row(data, **kwargs), of brad and of bread
Row_init ==
  /\ pc = "idle"
  /\ \E data \in Mappings({"id", "name"}), kwargs \in Mappings({"is_active", "columns"}) :
       made' = [kind |-> "Row", args |-> <<data, kwargs>>, row |-> Row(data, kwargs),
                raised |-> FALSE, columns |-> << >>, dict |-> << >>]
  /\ pc' = "row"
  /\ UNCHANGED <<tables, backend, entry, force, seed, i, log, error, result,
                 committed, working, before, check, built>>

\* row.columns() and row.get_dict() of the row just built
Row_get_dict ==
  /\ pc = "row"
  /\ made' = IF get_dict_raises(made.row)
             THEN [made EXCEPT !.raised = TRUE]
             ELSE [made EXCEPT !.columns = columns(made.row), !.dict = get_dict(made.row)]
  /\ pc' = "made"
  /\ UNCHANGED <<tables, backend, entry, force, seed, i, log, error, result,
                 committed, working, before, check, built>>

\* The rows handed to Table.insert: those of the test suites' seeds and a row of one key.
InsertRowChoices == SeedRowChoices \cup {Row(NoData, << <<"name", PyStr("Test2")>> >>)}

InsertLists == UNION { [1..n -> InsertRowChoices] : n \in 0..MaxSeedRows }

\* brad: table.insert(conn, rows), on a connection whose executemany may raise
Table_insert ==
  /\ pc = "idle"
  /\ tables \in {<<TEST_TABLE>>, TEST_TABLES}
  /\ \E t \in 1..Len(tables), rows \in InsertLists, ok \in BOOLEAN :
       LET table == tables[t]
           vals == insert_vals(table, rows, 1)
       IN /\ made' = [kind |-> "insert", table |-> table, rows |-> rows]
          /\ IF rows = << >>
             THEN log' = << >> /\ error' = "" /\ result' = "self" /\ UNCHANGED working
             ELSE IF insert_raises(table, rows)
             THEN log' = << >> /\ error' = "AttributeError" /\ result' = "" /\ UNCHANGED working
             ELSE IF vals = << >>
             THEN log' = << >> /\ error' = "" /\ result' = "self" /\ UNCHANGED working
             ELSE /\ log' = <<Stmt("INSERT", table.name, columns(rows[1]), vals, ok)>>
                  /\ error' = IF ok THEN "" ELSE "Error"
                  /\ result' = IF ok THEN "self" ELSE ""
                  /\ working' = IF ok THEN ExecInsert(working, table.name, columns(rows[1]), vals)
                                ELSE working
  /\ pc' = "made"
  /\ UNCHANGED <<tables, backend, entry, force, seed, i, committed, before, check, built>>

InitObjects ==
  /\ tables \in {get_all_tables, TABLES, TEST_TABLES, <<TEST_TABLE>>} \cup SeededRegistries
  /\ backend = "postgres"
  /\ committed = EmptyDatabase
  /\ working = committed
  /\ before = committed
  /\ Idle

NextObjects ==
  \/ Table_get_create_statement \/ Table_create \/ Table_create_again
  \/ Table_get_insert_statement
  \/ ForeignKey_init \/ Constraint_to_sql_call
  \/ Row_init \/ Row_get_dict
  \/ Table_insert
  \/ Return

SpecObjects == InitObjects /\ [][NextObjects]_vars

(***************************************************************************)
(* MethodOptions of brad.main and of bread.main: the options of a method   *)
(* and MethodOptions.set(input_opts), one token of the loop at a time.     *)
(***************************************************************************)
MaxTokens == 3

\* The option specifications of TestMethodOptions.setUp: {attr: ([flags], type, desc)}
TEST_OPTS ==
  [force |-> [flags |-> {"-f", "--force"}, typ |-> "bool"],
   no_seed |-> [flags |-> {"--no-seed"}, typ |-> "bool"],
   count |-> [flags |-> {"-c", "--count"}, typ |-> "int"]]

Tokens == {"-f", "--no-seed", "-c", "--unknown-flag", "42"}

\* opt.startswith('-')
startswith_dash(opt) == opt \in {"-f", "--force", "--no-seed", "-c", "--count", "--unknown-flag"}

flag_list(opts) == UNION {opts[attr].flags : attr \in DOMAIN opts}

flag_map(opts, flag) == CHOOSE attr \in DOMAIN opts : flag \in opts[attr].flags

\* typ(): bool() is False and int() is 0; typ(opt): int('42') is 42, bool of a non-empty string is True
typ_new(t) == IF t = "bool" THEN PyBool("False") ELSE PyInt("0")

typ_from(t, opt) == IF t = "int" THEN PyInt(opt) ELSE PyBool(IF opt = "" THEN "False" ELSE "True")

\* active_opt = None
NoOption == ""

\* MethodOptions(opts) followed by the call of set(input_opts)
MethodOptions_init ==
  /\ pc = "idle"
  /\ \E class \in {"brad", "bread"}, n \in 0..MaxTokens : \E input_opts \in [1..n -> Tokens] :
       /\ made' = [kind |-> "MethodOptions", class |-> class, opts |-> TEST_OPTS,
                   attrs |-> [attr \in DOMAIN TEST_OPTS |-> typ_new(TEST_OPTS[attr].typ)],
                   input_opts |-> input_opts, pos |-> 1, active_opt |-> NoOption]
       /\ pc' = IF n = 0 THEN "made" ELSE "set"
  /\ UNCHANGED <<tables, backend, entry, force, seed, i, log, error, result,
                 committed, working, before, check, built>>

\* One pass of `for opt in input_opts` in brad.main: a boolean flag leaves active_opt as it is.
MethodOptions_set ==
  /\ pc = "set" /\ made.class = "brad"
  /\ LET opt == made.input_opts[made.pos]
         next == [made EXCEPT !.pos = @ + 1]
     IN made' =
          IF startswith_dash(opt) /\ opt \notin flag_list(made.opts) THEN next
          ELSE IF startswith_dash(opt)
          THEN IF IsInstance(made.attrs[flag_map(made.opts, opt)], "bool")
               THEN [next EXCEPT !.attrs[flag_map(made.opts, opt)] = PyBool("True")]
               ELSE [next EXCEPT !.active_opt = flag_map(made.opts, opt)]
          ELSE IF made.active_opt # NoOption
          THEN [next EXCEPT !.attrs[made.active_opt] = typ_from(made.opts[made.active_opt].typ, opt),
                            !.active_opt = NoOption]
          ELSE next
  /\ pc' = IF made.pos = Len(made.input_opts) THEN "made" ELSE "set"
  /\ UNCHANGED <<tables, backend, entry, force, seed, i, log, error, result,
                 committed, working, before, check, built>>

\* The same pass in bread.main: a boolean flag also sets active_opt = None.
bread_MethodOptions_set ==
  /\ pc = "set" /\ made.class = "bread"
  /\ LET opt == made.input_opts[made.pos]
         next == [made EXCEPT !.pos = @ + 1]
     IN made' =
          IF startswith_dash(opt) /\ opt \notin flag_list(made.opts) THEN next
          ELSE IF startswith_dash(opt)
          THEN IF IsInstance(made.attrs[flag_map(made.opts, opt)], "bool")
               THEN [next EXCEPT !.attrs[flag_map(made.opts, opt)] = PyBool("True"),
                                 !.active_opt = NoOption]
               ELSE [next EXCEPT !.active_opt = flag_map(made.opts, opt)]
          ELSE IF made.active_opt # NoOption
          THEN [next EXCEPT !.attrs[made.active_opt] = typ_from(made.opts[made.active_opt].typ, opt),
                            !.active_opt = NoOption]
          ELSE next
  /\ pc' = IF made.pos = Len(made.input_opts) THEN "made" ELSE "set"
  /\ UNCHANGED <<tables, backend, entry, force, seed, i, log, error, result,
                 committed, working, before, check, built>>

InitOptions ==
  /\ tables = TEST_TABLES
  /\ backend = "postgres"
  /\ committed = EmptyDatabase
  /\ working = committed
  /\ before = committed
  /\ Idle

NextOptions == MethodOptions_init \/ MethodOptions_set \/ bread_MethodOptions_set \/ Return

SpecOptions == InitOptions /\ [][NextOptions]_vars

(***************************************************************************)
(* What a call has issued so far, read off the connection's log.           *)
(***************************************************************************)
LogOps(op) == {k \in 1..Len(log) : log[k].op = op}

Issued(op, name) == {k \in 1..Len(log) : log[k].op = op /\ log[k].table = name}

Failed == \E k \in 1..Len(log) : ~log[k].ok

Succeeded(op) == \E k \in LogOps(op) : log[k].ok

Initializing == entry \in {"create_schema", "initialize_schema"}

AnyInitialize == entry \in {"create_schema", "initialize_schema", "sqlite_initialize_schema"}

\* The database after the successful statements of a log, in order.
RECURSIVE Replay(_, _, _)
Replay(db, l, k) ==
  IF k > Len(l) THEN db
  ELSE IF ~l[k].ok THEN Replay(db, l, k + 1)
  ELSE IF l[k].op = "DROP" THEN Replay(ExecDrop(db, l[k].table), l, k + 1)
  ELSE IF l[k].op = "CREATE" THEN Replay(ExecCreate(db, l[k].table), l, k + 1)
  ELSE IF l[k].op = "INSERT"
       THEN Replay(ExecInsert(db, l[k].table, l[k].columns, l[k].rows), l, k + 1)
  ELSE Replay(db, l, k + 1)

\* C1: create_schema / initialize_schema commit if and only if every statement of
\* the call succeeded; after a failure rollback is issued, commit never is, and the
\* error reaches the caller (raised, or the False result); the committed database
\* is the one before the call or the one after all of the call's statements.
CommitIffAllSucceeded ==
  Initializing =>
    /\ LogOps("COMMIT") # {} => ~Failed /\ error = ""
    /\ Failed => error # ""
    /\ pc = "done" /\ error = "" => LogOps("COMMIT") # {} /\ result \in {"returned", "True"}
    /\ pc = "done" /\ error # "" =>
         /\ LogOps("COMMIT") = {}
         /\ result \in {"raised", "False"}
         /\ log # << >> => LogOps("ROLLBACK") # {}
    /\ committed = IF LogOps("COMMIT") # {} THEN Replay(before, log, 1) ELSE before

\* A call that created a table, then failed, and has ended.
RolledBackAfterWork ==
  /\ Initializing /\ pc = "done" /\ Failed
  /\ Succeeded("CREATE")
  /\ LogOps("ROLLBACK") # {}

\* C2: with force and seed, for tables A before B in the registry the log drops B
\* before A, creates A before B and seeds A before B; a call that succeeds has
\* dropped and created every table exactly once.
RegistryOrderRespected ==
  Initializing /\ force /\ seed =>
    /\ \A a, b \in 1..Len(tables) : a < b =>
         /\ \A ka \in Issued("DROP", tables[a].name), kb \in Issued("DROP", tables[b].name) : kb < ka
         /\ \A ka \in Issued("CREATE", tables[a].name), kb \in Issued("CREATE", tables[b].name) : ka < kb
         /\ \A ka \in Issued("INSERT", tables[a].name), kb \in Issued("INSERT", tables[b].name) : ka < kb
    /\ pc = "done" /\ error = "" =>
         \A a \in 1..Len(tables) :
           /\ Cardinality(Issued("DROP", tables[a].name)) = 1
           /\ Cardinality(Issued("CREATE", tables[a].name)) = 1
           /\ Cardinality(Issued("INSERT", tables[a].name)) <= 1

\* A forced, seeded call that succeeded and seeded two tables.
ForcedSeededTwoTables ==
  /\ Initializing /\ force /\ seed /\ pc = "done" /\ error = ""
  /\ Cardinality(LogOps("INSERT")) >= 2
  /\ Cardinality(LogOps("DROP")) >= 2

\* C3: within one call every DROP is issued before the first CREATE, and every
\* table's CREATE is issued before the first seed INSERT.
PhasesNeverInterleave ==
  AnyInitialize =>
    /\ \A d \in LogOps("DROP"), c \in LogOps("CREATE") : d < c
    /\ \A c \in LogOps("CREATE"), s \in LogOps("INSERT") : c < s
    /\ \A d \in LogOps("DROP"), s \in LogOps("INSERT") : d < s
    /\ LogOps("INSERT") # {} =>
         \A a \in 1..Len(tables) : Issued("CREATE", tables[a].name) # {}
    /\ LogOps("CREATE") # {} /\ force /\ entry # "sqlite_initialize_schema" =>
         \A a \in 1..Len(tables) : Issued("DROP", tables[a].name) # {}

\* A call that has dropped, created and seeded.
AllThreePhasesRan ==
  /\ AnyInitialize
  /\ LogOps("DROP") # {} /\ LogOps("CREATE") # {} /\ LogOps("INSERT") # {}


\* C4: when a step of schema initialization fails, the committed database is
\* afterwards exactly the one before the call.
FailureLeavesDatabaseAsBefore ==
  AnyInitialize /\ pc = "done" /\ error # "" => committed = before

\* The same for the two PostgreSQL implementations, whose work is one transaction.
TransactionalFailureLeavesDatabaseAsBefore ==
  Initializing /\ pc = "done" /\ error # "" => committed = before

\* A forced SQLite initialization of an existing, populated database that failed.
ForcedSqliteFailure ==
  /\ entry = "sqlite_initialize_schema" /\ force /\ pc = "done" /\ error # ""
  /\ before.exists /\ before.tables # {}

\* C5: drop_schema issues one DROP per table, in reverse registry order, and
\* nothing else; it commits only after every drop succeeded; the first failing
\* drop ends the drops, is followed by rollback and no commit, and is re-raised.
DropSchemaAllOrNothing ==
  entry = "drop_schema" =>
    /\ LogOps("CREATE") = {} /\ LogOps("INSERT") = {}
    /\ \A k \in LogOps("DROP") : k <= Len(tables) /\ log[k].table = tables[Len(tables) - k + 1].name
    /\ \A k \in LogOps("DROP") : ~log[k].ok => \A m \in LogOps("DROP") : m <= k
    /\ LogOps("COMMIT") # {} => ~Failed /\ Cardinality(LogOps("DROP")) = Len(tables)
    /\ pc = "done" /\ error = "" =>
         /\ LogOps("COMMIT") # {} /\ result = "returned"
         /\ committed = Replay(before, log, 1)
    /\ pc = "done" /\ error # "" =>
         /\ LogOps("COMMIT") = {} /\ result = "raised"
         /\ log # << >> => LogOps("ROLLBACK") # {}
         /\ committed = before

\* drop_schema failed on a later table after dropping an existing one.
DropFailedMidway ==
  /\ entry = "drop_schema" /\ pc = "done" /\ Failed /\ Succeeded("DROP")
  /\ before.tables # {}

\* C6: without force no DROP is issued and without seed no INSERT is issued; a
\* call that completes has issued CREATE for every table whatever force and seed
\* are, and with force has issued DROP for every table.
FlagsSelectStatements ==
  Initializing =>
    /\ ~force => LogOps("DROP") = {}
    /\ ~seed => LogOps("INSERT") = {}
    /\ pc = "done" /\ error = "" =>
         \A a \in 1..Len(tables) :
           /\ Issued("CREATE", tables[a].name) # {}
           /\ force => Issued("DROP", tables[a].name) # {}

\* A call without force and seed completed on a seeded registry over existing tables.
PlainCallOnSeededRegistry ==
  /\ Initializing /\ ~force /\ ~seed /\ pc = "done" /\ error = ""
  /\ \E a \in 1..Len(tables) : tables[a].seed # << >>
  /\ before.tables # {}

\* C7: in the catalogs shipped with the program (get_all_tables and TABLES) every
\* foreign key of a table references a table that stands strictly before it.
ReferencedTablesComeFirst ==
  tables \in {get_all_tables, TABLES} =>
    \A t \in 1..Len(tables) : \A c \in 1..Len(tables[t].constraints) :
      tables[t].constraints[c].kind = "ForeignKey" =>
        \E r \in 1..(t - 1) : tables[r].name = tables[t].constraints[c].ref_table

\* A shipped catalog with foreign keys has been created in full and committed.
ShippedCatalogCreated ==
  /\ tables \in {get_all_tables, TABLES}
  /\ \E t \in 1..Len(tables) : \E c \in 1..Len(tables[t].constraints) :
       tables[t].constraints[c].kind = "ForeignKey"
  /\ pc = "done" /\ error = ""
  /\ committed.tables = Names(tables)

(***************************************************************************)
(* The validators' calls, read off the check variable.                     *)
(***************************************************************************)
Validated == pc = "validated" /\ HasTable(tables, check.table)

CheckedTable == TableNamed(tables, check.table)

ColumnNames(tbl) == {tbl.columns[k].name : k \in 1..Len(tbl.columns)}

ColumnNamed(tbl, name) == tbl.columns[CHOOSE k \in 1..Len(tbl.columns) : tbl.columns[k].name = name]

\* NOT NULL, no identity generation and no default.
Required(col) ==
  Truthy(col.not_null) /\ col.generated_identity = PyNone /\ col.default = PyNone

MissingRequired(tbl, row) ==
  {k \in 1..Len(tbl.columns) : Required(tbl.columns[k]) /\ tbl.columns[k].name \notin RowKeys(row)}

MissingReasons == {"required but not provided", "Required column was not provided"}

InvalidKeyReasons ==
  {"not part of the table", "autogenerated", "Invalid column name(s) provided"}

\* C8: a row that omits a column that is NOT NULL, without identity generation and
\* without default is rejected, and no row is rejected as missing a required
\* column unless it omits such a column.
RequiredColumnsEnforced ==
  Validated =>
    /\ MissingRequired(CheckedTable, check.row) # {} => check.outcome # "ok"
    /\ check.outcome \in MissingReasons => MissingRequired(CheckedTable, check.row) # {}

\* The same of Table._validate_row alone.
ValidateRowEnforcesRequiredColumns ==
  check.validator = "_validate_row" => RequiredColumnsEnforced

\* DataValidator.validate has answered for a row that omits a required column.
ValidateOmittingRequired ==
  /\ Validated /\ check.validator = "validate"
  /\ MissingRequired(CheckedTable, check.row) # {}
  /\ RowKeys(check.row) \subseteq ColumnNames(CheckedTable)

\* C9: a row with a key that is no column of the table, or that names a column
\* generated ALWAYS, is rejected for its keys, whatever else it holds.
InvalidKeysRejected ==
  Validated =>
    LET tbl == CheckedTable
        bad == {key \in RowKeys(check.row) :
                  \/ key \notin ColumnNames(tbl)
                  \/ ColumnNamed(tbl, key).generated_identity = ALWAYS}
    IN bad # {} => check.outcome \in InvalidKeyReasons

\* A row that names a column generated ALWAYS next to a well-typed name.
GeneratedAlwaysKeyProvided ==
  /\ Validated
  /\ \E a, b \in 1..Len(check.row) :
       /\ a # b
       /\ check.row[a][1] \in ColumnNames(CheckedTable)
       /\ check.row[b][1] \in ColumnNames(CheckedTable)
       /\ ColumnNamed(CheckedTable, check.row[a][1]).generated_identity = ALWAYS
       /\ IsInstance(check.row[a][2], "int")
       /\ IsInstance(check.row[b][2], ColumnNamed(CheckedTable, check.row[b][1]).sql_type.python_type)
  /\ check.outcome # "ok"

\* Every other key names a writable column and holds a value of exactly its type,
\* and every required column is present.
OtherwiseValid(tbl, row) ==
  /\ \A k \in 1..Len(row) :
       /\ row[k][1] \in ColumnNames(tbl)
       /\ ColumnNamed(tbl, row[k][1]).generated_identity # ALWAYS
       /\ row[k][2].py = ColumnNamed(tbl, row[k][1]).sql_type.python_type
  /\ MissingRequired(tbl, row) = {}

SuppliesByDefaultIdentity(tbl, row) ==
  \E k \in 1..Len(row) :
    /\ row[k][1] \in ColumnNames(tbl)
    /\ ColumnNamed(tbl, row[k][1]).generated_identity = BY_DEFAULT

\* C10: a row with an explicit, well-typed value for a column generated BY DEFAULT
\* that is otherwise valid is accepted; get_writable_columns is, in definition
\* order, the columns not generated ALWAYS.
ByDefaultOverrideAccepted ==
  /\ Validated /\ SuppliesByDefaultIdentity(CheckedTable, check.row)
       /\ OtherwiseValid(CheckedTable, check.row) => check.outcome = "ok"
  /\ \A t \in 1..Len(tables) :
       LET NotAlways(col) == col.generated_identity # ALWAYS
       IN get_writable_columns(tables[t]) = SelectNames(tables[t].columns, NotAlways, 1)

\* The same of Table._validate_row alone.
ValidateRowAcceptsByDefaultOverride ==
  check.validator = "_validate_row" => ByDefaultOverrideAccepted

(***************************************************************************)
(* Null values and native types in a validated row.                        *)
(***************************************************************************)
NullReasons == {"NOT NULL but provided as None", "Non-nullable column cannot be None"}

TypeReasons == {"wrong type", "Invalid data type"}

\* The keys of the row that name a column of the table and hold None.
NullKeys(tbl, row) ==
  {k \in 1..Len(row) : row[k][1] \in ColumnNames(tbl) /\ row[k][2] = PyNone}

NullForNotNull(tbl, row) ==
  {k \in NullKeys(tbl, row) : Truthy(ColumnNamed(tbl, row[k][1]).not_null)}

NullForNotNullWithoutDefault(tbl, row) ==
  {k \in NullForNotNull(tbl, row) : ColumnNamed(tbl, row[k][1]).default = PyNone}

NullForNotNullWithDefault(tbl, row) ==
  {k \in NullForNotNull(tbl, row) : ColumnNamed(tbl, row[k][1]).default # PyNone}

\* A row is rejected when it supplies None for a NOT NULL column without default.
NullWithoutDefaultRejected ==
  Validated =>
    (NullForNotNullWithoutDefault(CheckedTable, check.row) # {} => check.outcome # "ok")

\* C11 (as stated): a row that supplies None for a NOT NULL column without default
\* is rejected, and no row is rejected for a None unless the None is supplied to a
\* NOT NULL column without default (None for a NOT NULL column with a default is
\* tolerated).
NullToleratedWhereDefaultExists ==
  /\ NullWithoutDefaultRejected
  /\ Validated /\ check.outcome \in NullReasons =>
       NullForNotNullWithoutDefault(CheckedTable, check.row) # {}

\* C11: both validators reject a row that supplies None for a NOT NULL column
\* without default.  DataValidator.validate rejects no row for a None supplied to
\* a NOT NULL column that has a default; Table._validate_row rejects every row
\* that supplies None for a NOT NULL column, with or without default.
NullRejectionPerValidator ==
  /\ NullWithoutDefaultRejected
  /\ Validated /\ check.validator = "validate" /\ check.outcome \in NullReasons =>
       NullForNotNullWithoutDefault(CheckedTable, check.row) # {}
  /\ Validated /\ check.validator = "_validate_row" =>
       /\ NullForNotNull(CheckedTable, check.row) # {} => check.outcome # "ok"
       /\ check.outcome \in NullReasons => NullForNotNull(CheckedTable, check.row) # {}

\* DataValidator.validate has accepted a row with a None supplied to a NOT NULL
\* column that has a default.
NullSuppliedWhereDefaultExists ==
  /\ Validated /\ check.validator = "validate"
  /\ NullForNotNullWithDefault(CheckedTable, check.row) # {}
  /\ check.outcome = "ok"

\* Table._validate_row has rejected a None supplied to a NOT NULL column with a default.
ValidateRowRejectsNullWhereDefaultExists ==
  /\ Validated /\ check.validator = "_validate_row"
  /\ NullForNotNullWithDefault(CheckedTable, check.row) # {}
  /\ NullForNotNullWithoutDefault(CheckedTable, check.row) = {}
  /\ check.outcome \in NullReasons

\* Every key names a column that may be written, every value that is not None has
\* exactly the native type of its column, and every required column is present.
ValidBesidesNulls(tbl, row) ==
  /\ \A k \in 1..Len(row) :
       /\ row[k][1] \in ColumnNames(tbl)
       /\ ColumnNamed(tbl, row[k][1]).generated_identity # ALWAYS
       /\ row[k][2] # PyNone => row[k][2].py = ColumnNamed(tbl, row[k][1]).sql_type.python_type
  /\ MissingRequired(tbl, row) = {}

\* The keys of the row whose value is not None and no instance of the column's native type.
MistypedKeys(tbl, row) ==
  {k \in 1..Len(row) :
     /\ row[k][1] \in ColumnNames(tbl)
     /\ row[k][2] # PyNone
     /\ ~IsInstance(row[k][2], ColumnNamed(tbl, row[k][1]).sql_type.python_type)}

\* C12: the type check applies only to values that are not None: a row that
\* supplies None for a nullable column and is otherwise valid is accepted, and a
\* row is rejected for a wrong type only if one of its non-None values has one.
NullForNullableAccepted ==
  Validated =>
    /\ (/\ NullKeys(CheckedTable, check.row) # {}
        /\ NullForNotNull(CheckedTable, check.row) = {}
        /\ ValidBesidesNulls(CheckedTable, check.row)) => check.outcome = "ok"
    /\ check.outcome \in TypeReasons => MistypedKeys(CheckedTable, check.row) # {}

\* The same of DataValidator.validate alone, on tables whose NOT NULL columns have
\* no default (the presence test of validation.py:52 is not met).
ValidateAcceptsNullForNullable ==
  (/\ check.validator = "validate"
   /\ Validated => \A k \in 1..Len(CheckedTable.columns) :
        ~(Truthy(CheckedTable.columns[k].not_null) /\ CheckedTable.columns[k].default # PyNone))
  => NullForNullableAccepted

\* Table._validate_row has answered for a None supplied to a nullable column in a
\* row that is otherwise valid.
ValidateRowNullForNullable ==
  /\ Validated /\ check.validator = "_validate_row"
  /\ NullKeys(CheckedTable, check.row) # {}
  /\ NullForNotNull(CheckedTable, check.row) = {}
  /\ ValidBesidesNulls(CheckedTable, check.row)

\* The keys of the row whose value is not None and not of exactly the column's native type.
InexactKeys(tbl, row) ==
  {k \in 1..Len(row) :
     /\ row[k][1] \in ColumnNames(tbl)
     /\ row[k][2] # PyNone
     /\ row[k][2].py # ColumnNamed(tbl, row[k][1]).sql_type.python_type}

\* C13: a row is accepted only if every value in it that is not None has exactly
\* the native type of its column's SQL type: an int for a Decimal column, a Decimal,
\* a bool or a str for an int column make the row rejected.
ExactNativeTypeRequired ==
  Validated /\ check.outcome = "ok" => InexactKeys(CheckedTable, check.row) = {}

\* What the validators do ensure: the only inexact value an accepted row holds is
\* a bool in an int column.
OnlyBoolPassesForInt ==
  Validated /\ check.outcome = "ok" =>
    \A k \in InexactKeys(CheckedTable, check.row) :
      /\ check.row[k][2].py = "bool"
      /\ ColumnNamed(CheckedTable, check.row[k][1]).sql_type.python_type = "int"

\* A validator has answered for a row that holds a bool for an int column and
\* nothing else amiss.
BoolSuppliedForInt ==
  /\ Validated
  /\ \E k \in 1..Len(check.row) :
       /\ check.row[k][1] \in ColumnNames(CheckedTable)
       /\ check.row[k][2].py = "bool"
       /\ ColumnNamed(CheckedTable, check.row[k][1]).sql_type.python_type = "int"
       /\ ColumnNamed(CheckedTable, check.row[k][1]).generated_identity = PyNone
  /\ MissingRequired(CheckedTable, check.row) = {}
  /\ \A k \in 1..Len(check.row) : check.row[k][1] \in ColumnNames(CheckedTable)
  /\ check.outcome = "ok"

\* The ways DataValidator.validate returns: True, or False after printing a reason.
ValidateReturns ==
  {"ok", "Invalid table name", "Invalid column name(s) provided",
   "Required column was not provided", "Non-nullable column cannot be None",
   "Invalid data type"}

\* C14: for every table name and every row mapping DataValidator.validate returns
\* accepted or rejected and raises nothing; a name that is not in the registry is
\* rejected as an invalid table name.
ValidateAlwaysReturns ==
  pc = "validated" /\ check.validator = "validate" =>
    /\ check.outcome \in ValidateReturns
    /\ ~HasTable(tables, check.table) => check.outcome = "Invalid table name"

\* validate has answered for a table name that is not in the registry.
UnknownTableRejected ==
  /\ pc = "validated" /\ check.validator = "validate"
  /\ ~HasTable(tables, check.table)
  /\ check.row # << >>
  /\ check.outcome = "Invalid table name"

(***************************************************************************)
(* DatabaseManager.insert, read off the log of its connection.             *)
(***************************************************************************)
Inserting == entry \in {"insert", "sqlite_insert"}

\* The statements handed to the executor: everything but connecting and ending the transaction.
Statements == {k \in 1..Len(log) : log[k].op \notin {"CONNECT", "COMMIT", "ROLLBACK"}}

Inserts == {k \in 1..Len(log) : log[k].op = "INSERT"}

\* C15: when the validator rejects the row, insert returns False at once: no
\* connection is opened, no statement is executed and the database is untouched.
RejectedRowNeverReachesExecutor ==
  Inserting /\ check.outcome # "ok" =>
    /\ pc = "done" /\ result = "False"
    /\ log = << >>
    /\ committed = before /\ working = before

\* insert has returned for a row of a known table that the validator rejected.
InsertRejectedRow ==
  /\ Inserting /\ pc = "done"
  /\ HasTable(tables, check.table)
  /\ check.row # << >>
  /\ check.outcome \notin {"ok", "Invalid table name"}
  /\ result = "False"

\* insert returns True or False, True exactly when the validator accepted the row
\* and the INSERT ran and was committed with nothing failing; it executes one
\* INSERT at most and changes the database only by the row it returns True for.
InsertResult ==
  /\ Inserting => Cardinality(Inserts) <= 1
  /\ Inserting /\ pc = "done" =>
       /\ result \in {"True", "False"}
       /\ result = "True" <=>
            /\ check.outcome = "ok"
            /\ Cardinality(Inserts) = 1
            /\ ~Failed
            /\ log[Len(log)].op = "COMMIT"
       /\ Failed => result = "False"
       /\ result = "False" => committed = before
       /\ result = "True" =>
            committed.rows = before.rows \cup
              {<<check.table, [k \in 1..Len(check.row) |-> check.row[k][1]],
                 [k \in 1..Len(check.row) |-> check.row[k][2]]>>}

\* C16 (as stated): insert returns True if and only if the validator accepted the
\* row and the single INSERT ran without error, every executor or driver failure
\* makes it return False, and at most one statement is executed per call.
InsertExecutesOneStatement ==
  /\ InsertResult
  /\ Inserting => Cardinality(Statements) <= 1

\* C16: insert returns True if and only if the validator accepted the row and the
\* single INSERT ran without error, every executor or driver failure makes it
\* return False, and at most one INSERT is executed per call; the INSERT is the
\* only statement of the call, but for the PRAGMA foreign_keys that the SQLite
\* manager executes on its new connection before it.
InsertExecutesOneInsert ==
  /\ InsertResult
  /\ Inserting =>
       \A k \in Statements :
         \/ log[k].op = "INSERT"
         \/ /\ log[k].op = "PRAGMA" /\ entry = "sqlite_insert"
            /\ k = 2 /\ log[1].op = "CONNECT"
  /\ entry = "insert" => Cardinality(Statements) <= 1

\* The SQLite insert has connected, set its pragma, failed in the INSERT and returned False.
SqliteInsertFailedInExecutor ==
  /\ entry = "sqlite_insert" /\ pc = "done"
  /\ check.outcome = "ok"
  /\ \E k \in Statements : log[k].op = "PRAGMA" /\ log[k].ok
  /\ \E k \in Inserts : ~log[k].ok
  /\ result = "False"

(***************************************************************************)
(* Column construction and its SQL, read off the built variable.           *)
(***************************************************************************)
Built == pc \in {"constructed", "rendered"}

ArgName == built.args[1]
ArgType == built.args[2]
ArgIdentity == built.args[3]
ArgNotNull == built.args[4]
ArgDefault == built.args[5]

\* "<name>" <SQL TYPE>
ColumnHead == "\"" \o ArgName \o "\" " \o ArgType.name

\* C17: constructing a Column with a default whose native type is not the native
\* type of the column's SQL type raises and yields no Column; with a default of
\* that type (and no identity generation, which has rules of its own) it
\* succeeds, and the SQL of the column ends in the DEFAULT clause.
DefaultTypeChecked ==
  Built /\ ArgDefault # PyNone =>
    /\ ArgDefault.py # ArgType.python_type => built.raised /\ built.column = PyNone
    /\ ArgDefault.py = ArgType.python_type /\ ArgIdentity = PyNone =>
         /\ ~built.raised
         /\ pc = "rendered" =>
              \E prefix \in {ColumnHead, ColumnHead \o " NOT NULL"} :
                built.sql = prefix \o " DEFAULT " \o built.column.default.val

\* What brad's constructor does ensure: it raises exactly for identity generation
\* on a type that is not Integer or BigInt and for a default that is no instance
\* of the type's Python type.
BradDefaultCheckedByIsInstance ==
  Built /\ built.class = "brad" =>
    (built.raised <=>
       \/ ArgIdentity # PyNone /\ ArgType.class \notin {"Integer", "BigInt"}
       \/ ArgDefault # PyNone /\ ~IsInstance(ArgDefault, ArgType.python_type))

\* bread's Column has been constructed with an int as the default of a Boolean column.
BreadMismatchedDefaultBuilt ==
  /\ pc = "rendered" /\ built.class = "bread"
  /\ ArgType = Boolean /\ ArgDefault = PyInt("1")
  /\ ~built.raised

\* C18: every Column constructed with identity generation ALWAYS or BY DEFAULT has
\* not_null True, whether not_null was given as True, as False or not at all.
IdentityForcesNotNull ==
  Built /\ ~built.raised /\ ArgIdentity \in {ALWAYS, BY_DEFAULT} =>
    built.column.not_null = PyBool("True")

\* An identity column has been constructed with not_null=False.
IdentityBuiltWithNotNullFalse ==
  /\ Built /\ ~built.raised
  /\ ArgIdentity = BY_DEFAULT /\ ArgNotNull = PyBool("False")
  /\ built.column.not_null = PyBool("True")

\* C19 (as stated): constructing a Column with identity generation succeeds if and
\* only if its SQL type is Integer or BigInt.
IdentityBuiltIffIntegerType ==
  Built /\ ArgIdentity \in {ALWAYS, BY_DEFAULT} =>
    (~built.raised <=> ArgType.class \in {"Integer", "BigInt"})

\* C19: constructing a Column with identity generation raises for every SQL type
\* other than Integer and BigInt; for Integer and BigInt it succeeds unless the
\* constructor rejects the default given with it (brad: a default that is no
\* instance of int).
IdentityNeedsIntegerType ==
  Built /\ ArgIdentity \in {ALWAYS, BY_DEFAULT} =>
    /\ ArgType.class \notin {"Integer", "BigInt"} => built.raised /\ built.column = PyNone
    /\ ArgType.class \in {"Integer", "BigInt"} =>
         (built.raised <=>
            /\ built.class = "brad"
            /\ ArgDefault # PyNone /\ ~IsInstance(ArgDefault, "int"))

\* Identity generation has been granted on a BigInt column.
IdentityBuiltOnBigInt ==
  /\ Built /\ ArgIdentity = ALWAYS /\ ArgType = BigInt /\ ArgDefault = PyNone
  /\ ~built.raised /\ built.column.generated_identity = ALWAYS

\* Identity generation has been refused on a Text column.
IdentityRefusedOnText ==
  /\ Built /\ ArgIdentity = BY_DEFAULT /\ ArgType = Text /\ ArgDefault = PyNone
  /\ built.raised

\* brad's constructor has refused an identity column of type Integer for its default.
IdentityOnIntegerRefusedForDefault ==
  /\ Built /\ built.class = "brad"
  /\ ArgIdentity = ALWAYS /\ ArgType = Integer /\ ArgDefault = PyStr("x")
  /\ built.raised

\* C20: the SQL of an identity column is its quoted name, its SQL type and the
\* clause GENERATED ALWAYS AS IDENTITY or GENERATED BY DEFAULT AS IDENTITY, with no
\* NOT NULL and no DEFAULT whatever the constructor was given; the SQL of any other
\* column has NOT NULL (if set) before DEFAULT (if present).
IdentitySqlHasNoOtherClause ==
  pc = "rendered" =>
    IF ArgIdentity \in {ALWAYS, BY_DEFAULT}
    THEN built.sql = ColumnHead \o " GENERATED " \o ArgIdentity.val \o " AS IDENTITY"
    ELSE built.sql = ColumnHead
           \o (IF ArgNotNull = PyBool("True") THEN " NOT NULL" ELSE "")
           \o (IF ArgDefault # PyNone THEN " DEFAULT " \o built.column.default.val ELSE "")

\* An identity column constructed with not_null=True and a default has been rendered.
IdentityWithDefaultRendered ==
  /\ pc = "rendered"
  /\ ArgIdentity = ALWAYS /\ ArgNotNull = PyBool("True") /\ ArgDefault = PyInt("1")
  /\ built.sql = ColumnHead \o " GENERATED ALWAYS AS IDENTITY"

(***************************************************************************)
(* The statements of a table.                                              *)
(***************************************************************************)
\* The DDL of the columns in definition order, then of the constraints in the order added.
BodyParts(table) ==
  [k \in 1..(Len(table.columns) + Len(table.constraints)) |->
     IF k <= Len(table.columns) THEN to_sql(table.columns[k])
     ELSE Constraint_to_sql(table.constraints[k - Len(table.columns)])]

\* C21: the CREATE statement of a table is CREATE TABLE IF NOT EXISTS "<name>" (...)
\* whose body is the DDL of every column once, in definition order, then the DDL of
\* every constraint once, in the order added, separated by commas; generating it
\* again gives the same text.
CreateStatementListsColumnsThenConstraints ==
  made.kind = "Table" =>
    /\ made.sql = "CREATE TABLE IF NOT EXISTS \"" \o made.table.name \o "\" ("
                    \o Join(BodyParts(made.table), ", ") \o ");"
    /\ pc = "made" => made.again = made.sql

\* The statement of the test suites' table, with columns and constraints, generated twice.
TestTableStatementGeneratedTwice ==
  /\ made.kind = "Table" /\ pc = "made"
  /\ made.table = TEST_TABLE
  /\ made.again = "CREATE TABLE IF NOT EXISTS \"test_table\" (\"id\" BIGINT GENERATED BY DEFAULT AS IDENTITY, \"name\" TEXT NOT NULL, \"is_active\" BOOLEAN DEFAULT TRUE, PRIMARY KEY (\"id\"), UNIQUE (\"name\"));"

\* C22: get_insert_statement returns None exactly for a table without seed rows;
\* otherwise its column list is the table's columns that are a key of at least one
\* seed row, in the table's column order, and it holds one tuple per seed row, in
\* row order, whose i-th value is the row's value for the i-th listed column, or
\* None when the row has no such key.
InsertStatementCoversSeedRows ==
  made.kind = "insert_statement" =>
    LET table == made.table
        st == made.statement
        Pos(name) == CHOOSE k \in 1..Len(table.columns) : table.columns[k].name = name
    IN /\ made.none <=> table.seed = << >>
       /\ ~made.none =>
            /\ SeqRange(st.columns) =
                 {table.columns[k].name : k \in {k \in 1..Len(table.columns) :
                    \E r \in 1..Len(table.seed) : table.columns[k].name \in RowKeys(table.seed[r])}}
            /\ \A a, b \in 1..Len(st.columns) : a < b => Pos(st.columns[a]) < Pos(st.columns[b])
            /\ Len(st.rows) = Len(table.seed)
            /\ \A r \in 1..Len(st.rows) :
                 /\ Len(st.rows[r]) = Len(st.columns)
                 /\ \A k \in 1..Len(st.columns) :
                      st.rows[r][k] = IF st.columns[k] \in RowKeys(table.seed[r])
                                      THEN getitem(table.seed[r], st.columns[k])
                                      ELSE PyNone

\* The statement of a table whose two seed rows have different keys.
StatementOfRowsWithDifferentKeys ==
  /\ made.kind = "insert_statement" /\ ~made.none
  /\ made.statement.columns = <<"id", "name", "is_active">>
  /\ made.statement.rows = << <<PyInt("1"), PyStr("Test"), PyNone>>,
                              <<PyNone, PyStr("Test1"), PyBool("True")>> >>

\* C23: a foreign key renders as FOREIGN KEY (<quoted columns>) REFERENCES "<table>"
\* (<quoted referenced columns>) ON DELETE <action> ON UPDATE <action>, with both
\* clauses always present; an action left out is RESTRICT on delete and CASCADE on
\* update; the text is preceded by CONSTRAINT "<name>" exactly when a name is given.
ForeignKeyRendersBothActions ==
  made.kind = "ForeignKey" /\ pc = "made" =>
    LET cols == made.args[1]
        ref_columns == made.args[3]
        on_delete == IF made.args[4] = Absent THEN "RESTRICT" ELSE made.args[4]
        on_update == IF made.args[5] = Absent THEN "CASCADE" ELSE made.args[5]
        named == made.args[6] \notin {PyNone, PyStr("")}
        Quoted(cs) == IF Len(cs) = 1 THEN "\"" \o cs[1] \o "\""
                      ELSE "\"" \o cs[1] \o "\", \"" \o cs[2] \o "\""
        body == "FOREIGN KEY (" \o Quoted(cols) \o ") REFERENCES \"" \o made.args[2] \o "\" ("
                  \o Quoted(ref_columns) \o ") ON DELETE " \o on_delete \o " ON UPDATE " \o on_update
    IN made.sql = IF named THEN "CONSTRAINT \"" \o made.args[6].val \o "\" " \o body ELSE body

\* A named foreign key built without actions, rendered with both defaults.
NamedForeignKeyWithDefaultActions ==
  /\ made.kind = "ForeignKey" /\ pc = "made"
  /\ made.args[4] = Absent /\ made.args[5] = Absent
  /\ made.sql = "CONSTRAINT \"fk_account\" FOREIGN KEY (\"account_id\") REFERENCES \"account\" (\"account_id\") ON DELETE RESTRICT ON UPDATE CASCADE"

(***************************************************************************)
(* Rows.                                                                   *)
(***************************************************************************)
\* The pairs a Row was given: those of the mapping, then those of the keywords.
Supplied == made.args[1] \o made.args[2]

\* C24: for every Row built from a mapping and/or keyword arguments, columns() lists
\* exactly the supplied keys in insertion order and get_dict() returns exactly the
\* supplied pairs: no supplied key is dropped, renamed or given another value.
RowKeepsSuppliedPairs ==
  made.kind = "Row" /\ pc = "made" =>
    /\ ~made.raised
    /\ made.columns = [k \in 1..Len(Supplied) |-> Supplied[k][1]]
    /\ made.dict = Supplied

\* The same of rows built from a mapping alone or from keywords alone, none of
\* them a name of Row's own methods.
RowKeepsPairsOfOneSource ==
  made.kind = "Row" /\ pc = "made"
      /\ (made.args[1] = << >> \/ made.args[2] = << >>)
      /\ "columns" \notin RowKeys(Supplied)
    => /\ ~made.raised
       /\ made.columns = [k \in 1..Len(Supplied) |-> Supplied[k][1]]
       /\ made.dict = Supplied

\* A row built from a mapping and a keyword has lost the keyword.
RowBuiltFromBothDropsKeywords ==
  /\ made.kind = "Row" /\ pc = "made" /\ ~made.raised
  /\ made.args = << <<<<"id", PyInt("1")>>>>, <<<<"is_active", PyStr("Test")>>>> >>
  /\ made.columns = <<"id">>
  /\ made.dict = <<<<"id", PyInt("1")>>>>

(***************************************************************************)
(* Table.insert.                                                           *)
(***************************************************************************)
TableInsertCalled == made.kind = "insert" /\ pc = "made"

\* The rows of the call that pass the table's validation, by position, in input order.
ValidRows == Ascending({k \in 1..Len(made.rows) : validate_row(made.table, made.rows[k])})

\* C25: Table.insert(conn, rows) executes at most one batched INSERT; its tuples
\* are, in input order, the rows that pass the table's validation, each as its
\* values for the columns of the statement; when rows is empty or no row passes
\* validation no statement is executed and the call returns normally.
InsertBatchesValidRows ==
  TableInsertCalled =>
    /\ Cardinality(Inserts) <= 1 /\ Statements = Inserts
    /\ ValidRows # << >> => Cardinality(Inserts) = 1
    /\ \A e \in Inserts :
         /\ log[e].table = made.table.name
         /\ Len(log[e].rows) = Len(ValidRows)
         /\ \A n \in 1..Len(ValidRows) : \A c \in 1..Len(log[e].columns) :
              log[e].rows[n][c] = getitem(made.rows[ValidRows[n]], log[e].columns[c])
    /\ ValidRows = << >> => log = << >> /\ error = "" /\ result = "self"

\* The same of the calls that do not raise before the statement is built.
InsertBatchesValidRowsUnlessRaised ==
  TableInsertCalled /\ error # "AttributeError" => InsertBatchesValidRows

\* A call whose first row is valid and whose second is not has inserted the first alone.
InsertSkippedInvalidRow ==
  /\ TableInsertCalled /\ error = "" /\ result = "self"
  /\ Len(made.rows) = 2 /\ ValidRows = <<1>>
  /\ \E e \in Inserts : log[e].rows = <<ValuesOf(made.rows[1], columns(made.rows[1]))>>

\* C28: every tuple Table.insert hands to the executor has one value per column of
\* the statement and carries every key and value of the row it came from, also
\* when the rows have different keys or the first row is invalid: no key of an
\* accepted row is left out and no accepted row makes the call raise.
InsertCarriesEveryKeyOfAcceptedRows ==
  TableInsertCalled =>
    /\ \A e \in Inserts : \A n \in 1..Len(log[e].rows) :
         /\ Len(log[e].rows[n]) = Len(log[e].columns)
         /\ n <= Len(ValidRows) =>
              \A p \in 1..Len(made.rows[ValidRows[n]]) :
                \E c \in 1..Len(log[e].columns) :
                  /\ log[e].columns[c] = made.rows[ValidRows[n]][p][1]
                  /\ log[e].rows[n][c] = made.rows[ValidRows[n]][p][2]
    /\ error # "AttributeError"

\* The same of calls whose rows all have the keys of the first row.
InsertCarriesEveryKeyOfRowsAlike ==
  TableInsertCalled /\ (\A k \in 1..Len(made.rows) : RowKeys(made.rows[k]) = RowKeys(made.rows[1]))
    => InsertCarriesEveryKeyOfAcceptedRows

\* Two valid rows with different keys have made the call raise.
InsertRaisedOnAcceptedRow ==
  /\ TableInsertCalled /\ error = "AttributeError" /\ log = << >>
  /\ Len(made.rows) = 2 /\ ValidRows = <<1, 2>>

\* An accepted row has been inserted without one of its keys, after an invalid first row.
InsertLeftOutKeyOfAcceptedRow ==
  /\ TableInsertCalled /\ error = ""
  /\ ValidRows = <<2>>
  /\ \E e \in Inserts : ~(RowKeys(made.rows[2]) \subseteq SeqRange(log[e].columns))

(***************************************************************************)
(* The order of the validators' checks.                                    *)
(***************************************************************************)
BadKeys(tbl, row) ==
  {key \in RowKeys(row) :
     key \notin ColumnNames(tbl) \/ ColumnNamed(tbl, key).generated_identity = ALWAYS}

\* The columns supplied with None although NOT NULL, and those supplied with a
\* value that is not None and of another type, by position in the table.
NullColumns(tbl, row) ==
  {k \in 1..Len(tbl.columns) :
     /\ tbl.columns[k].name \in RowKeys(row)
     /\ Truthy(tbl.columns[k].not_null)
     /\ getitem(row, tbl.columns[k].name) = PyNone}

MistypedColumns(tbl, row) ==
  {k \in 1..Len(tbl.columns) :
     /\ tbl.columns[k].name \in RowKeys(row)
     /\ getitem(row, tbl.columns[k].name) # PyNone
     /\ ~IsInstance(getitem(row, tbl.columns[k].name), tbl.columns[k].sql_type.python_type)}

\* C26 (as stated): a row that violates more than one check is rejected for the
\* earliest of them in the order unknown table, invalid column, required column
\* missing, null in a non-nullable column, wrong type, whatever the order of the
\* table's columns; a row that omits a required column and supplies a value of a
\* wrong type for another column is rejected as missing the required column.
RejectionFollowsFixedOrder ==
  Validated =>
    LET tbl == CheckedTable
        row == check.row
        B == BadKeys(tbl, row) # {}
        M == MissingRequired(tbl, row) # {}
        N == NullColumns(tbl, row) # {}
        W == MistypedColumns(tbl, row) # {}
        Several == \E P \in SUBSET {"B", "M", "N", "W"} :
                     /\ Cardinality(P) >= 2
                     /\ ("B" \in P => B) /\ ("M" \in P => M) /\ ("N" \in P => N) /\ ("W" \in P => W)
    IN Several =>
         /\ B => check.outcome \in InvalidKeyReasons
         /\ ~B /\ M => check.outcome \in MissingReasons
         /\ ~B /\ ~M /\ N => check.outcome \in NullReasons

Shorter(tbl, j) == [tbl EXCEPT !.columns = SubSeq(tbl.columns, 1, j)]

Least(S) == CHOOSE x \in S : \A y \in S : x <= y

\* The columns Table._validate_row refuses once present: None for a NOT NULL
\* column, or a value that is no instance of the column's type.
RefusedColumns(tbl, row) ==
  {k \in 1..Len(tbl.columns) :
     /\ tbl.columns[k].name \in RowKeys(row)
     /\ \/ Truthy(tbl.columns[k].not_null) /\ getitem(row, tbl.columns[k].name) = PyNone
        \/ ~IsInstance(getitem(row, tbl.columns[k].name), tbl.columns[k].sql_type.python_type)}

\* C26: the table is looked up first and the row's keys are checked second; then
\* the columns are examined in definition order and the rejection is that of the
\* first column that fails, so that columns defined later never change it.  A
\* row that omits a required column and supplies a refused value for another
\* column is rejected by Table._validate_row as missing the required column
\* exactly when the first omitted required column is defined before the first
\* refused one.
RejectionFollowsColumnOrder ==
  /\ pc = "validated" /\ ~HasTable(tables, check.table) => check.outcome = "Invalid table name"
  /\ Validated =>
       LET tbl == CheckedTable
           row == check.row
       IN /\ BadKeys(tbl, row) # {} => check.outcome \in InvalidKeyReasons
          /\ BadKeys(tbl, row) = {} =>
               \A j \in 1..Len(tbl.columns) :
                 LET first == IF check.validator = "validate"
                              THEN validate_columns(Shorter(tbl, j), row, 1)
                              ELSE validate_row_columns(Shorter(tbl, j), row, 1)
                 IN first # "ok" => check.outcome = first
          /\ /\ check.validator = "_validate_row" /\ BadKeys(tbl, row) = {}
             /\ MissingRequired(tbl, row) # {} /\ RefusedColumns(tbl, row) # {}
             => (check.outcome \in MissingReasons
                   <=> Least(MissingRequired(tbl, row)) < Least(RefusedColumns(tbl, row)))

\* Table._validate_row has rejected for its type a row that also omits a required
\* column, defined after the mistyped one.
WrongTypeReportedBeforeMissingColumn ==
  /\ Validated /\ check.validator = "_validate_row"
  /\ BadKeys(CheckedTable, check.row) = {}
  /\ MissingRequired(CheckedTable, check.row) # {}
  /\ MistypedColumns(CheckedTable, check.row) # {}
  /\ check.outcome = "wrong type"

(***************************************************************************)
(* MethodOptions.set.                                                      *)
(***************************************************************************)
\* The token the loop is at, and what it is by the option specifications.
Token == made.input_opts[made.pos]

IsBooleanFlag(opt) ==
  opt \in flag_list(made.opts) /\ made.opts[flag_map(made.opts, opt)].typ = "bool"

IsValueFlag(opt) ==
  opt \in flag_list(made.opts) /\ made.opts[flag_map(made.opts, opt)].typ # "bool"

\* One token of set is processed.
SetStep == made.kind = "MethodOptions" /\ pc = "set" /\ made'.kind = "MethodOptions"

\* C27: in MethodOptions.set a boolean flag sets its option to True and changes no
\* other option; a token that is no flag is assigned to an option exactly when the
\* token immediately before it is that option's value flag, and otherwise changes
\* no option; an unknown flag changes no option.
TokensBindToTheFlagJustBefore ==
  [][SetStep =>
       /\ IsBooleanFlag(Token) =>
            made'.attrs = [made.attrs EXCEPT ![flag_map(made.opts, Token)] = PyBool("True")]
       /\ startswith_dash(Token) /\ ~IsBooleanFlag(Token) => made'.attrs = made.attrs
       /\ ~startswith_dash(Token) =>
            IF made.pos > 1 /\ IsValueFlag(made.input_opts[made.pos - 1])
            THEN made'.attrs =
                   [made.attrs EXCEPT ![flag_map(made.opts, made.input_opts[made.pos - 1])] = PyInt(Token)]
            ELSE made'.attrs = made.attrs]_vars

\* The same of bread.main where no unknown flag stands between a value flag and a value.
BreadTokensBindToTheFlagJustBefore ==
  [][SetStep /\ made.class = "bread" /\ "--unknown-flag" \notin SeqRange(made.input_opts) =>
       /\ IsBooleanFlag(Token) =>
            made'.attrs = [made.attrs EXCEPT ![flag_map(made.opts, Token)] = PyBool("True")]
       /\ startswith_dash(Token) /\ ~IsBooleanFlag(Token) => made'.attrs = made.attrs
       /\ ~startswith_dash(Token) =>
            IF made.pos > 1 /\ IsValueFlag(made.input_opts[made.pos - 1])
            THEN made'.attrs =
                   [made.attrs EXCEPT ![flag_map(made.opts, made.input_opts[made.pos - 1])] = PyInt(Token)]
            ELSE made'.attrs = made.attrs]_vars

\* brad.main has bound a value to the option of a value flag two tokens before it.
ValueBoundAcrossBooleanFlag ==
  /\ made.kind = "MethodOptions" /\ pc = "made" /\ made.class = "brad"
  /\ made.input_opts = <<"-c", "-f", "42">>
  /\ made.attrs.count = PyInt("42") /\ made.attrs.force = PyBool("True")

(***************************************************************************)
(* Seeding.                                                                *)
(***************************************************************************)
\* Every seed row of every table is a tuple of the table's INSERT, in row order.
SeedRowsHandedOver ==
  \A t \in 1..Len(tables) : tables[t].seed # << >> =>
    \E e \in Issued("INSERT", tables[t].name) :
      /\ Len(log[e].rows) = Len(tables[t].seed)
      /\ \A r \in 1..Len(tables[t].seed) : \A c \in 1..Len(log[e].columns) :
           log[e].columns[c] \in RowKeys(tables[t].seed[r]) =>
             log[e].rows[r][c] = getitem(tables[t].seed[r], log[e].columns[c])

\* C29: when create_schema with seed=True commits, every seed row of every table
\* of the registry has been handed to the executor in the table's batched INSERT.
CommittedSeedingInsertsEverySeedRow ==
  entry = "create_schema" /\ seed /\ LogOps("COMMIT") # {} => SeedRowsHandedOver

\* The same of the catalog of brad.sql.schema, whose seed rows all pass validation.
CommittedSeedingOfCatalogInsertsEverySeedRow ==
  tables = get_all_tables => CommittedSeedingInsertsEverySeedRow

\* create_schema has committed although a seed row was left out of its table's INSERT.
CommittedWithSeedRowSkipped ==
  /\ entry = "create_schema" /\ seed /\ pc = "done" /\ error = "" /\ result = "returned"
  /\ LogOps("COMMIT") # {}
  /\ \E t \in 1..Len(tables) : \E e \in Issued("INSERT", tables[t].name) :
       /\ log[e].ok
       /\ Len(log[e].rows) < Len(tables[t].seed)

\* The value the database stores for a column of an inserted tuple: the tuple's
\* value when the statement lists the column, else the column's DEFAULT literal
\* read as a value of the column's type, or NULL when there is none.
StoredValue(tbl, st, n, name) ==
  IF name \in SeqRange(st.columns)
  THEN st.rows[n][CHOOSE p \in 1..Len(st.columns) : st.columns[p] = name]
  ELSE IF ColumnNamed(tbl, name).default = PyNone THEN PyNone
  ELSE [py |-> ColumnNamed(tbl, name).sql_type.python_type, val |-> ColumnNamed(tbl, name).default.val]

\* C30: seeding the shipped catalogs in registry order never references a missing
\* row: for every seed row handed to the executor and every foreign key of its
\* table, the referencing column's value (the row's, or the column's default when
\* the row omits it) is null or is the referenced column's value in a seed row of
\* the referenced table inserted earlier.
SeedRowsReferenceEarlierSeedRows ==
  tables \in {get_all_tables, TABLES} /\ AnyInitialize =>
    \A e \in LogOps("INSERT") :
      LET tbl == TableNamed(tables, log[e].table) IN
      \A c \in 1..Len(tbl.constraints) : tbl.constraints[c].kind = "ForeignKey" =>
        LET fk == tbl.constraints[c]
            ref == TableNamed(tables, fk.ref_table)
        IN \A n \in 1..Len(log[e].rows) :
             \/ \A k \in 1..Len(fk.columns) : StoredValue(tbl, log[e], n, fk.columns[k]) = PyNone
             \/ \E d \in LogOps("INSERT") :
                  /\ d < e /\ log[d].ok /\ log[d].table = fk.ref_table
                  /\ \E m \in 1..Len(log[d].rows) : \A k \in 1..Len(fk.columns) :
                       StoredValue(ref, log[d], m, fk.ref_columns[k])
                         = StoredValue(tbl, log[e], n, fk.columns[k])

\* A shipped catalog has been seeded and committed, down to the table whose seed
\* row refers to other tables through the defaults of its columns.
ShippedCatalogSeeded ==
  /\ tables \in {get_all_tables, TABLES} /\ AnyInitialize
  /\ pc = "done" /\ error = "" /\ LogOps("COMMIT") # {}
  /\ \E e \in Issued("INSERT", "financial_product") :
       /\ log[e].ok
       /\ "holder_id" \notin SeqRange(log[e].columns)
       /\ StoredValue(TableNamed(tables, "financial_product"), log[e], 1, "holder_id") = PyInt("-1")

=============================================================================
